---- MODULE Spec2Model ----
(***************************************************************************)
(* Verification model of the 01 market-making bot.                         *)
(*                                                                         *)
(*   SpecOB  the local orderbook stream, ZoOrderbookStream                 *)
(*           (sdk/orderbook.ts, src/unnamed/part_003 lines 1-413):         *)
(*           connect, reconnect, snapshot + buffered deltas, close.        *)
(*   SpecMM  the quoting loop of MarketMaker (bots/mm/index.ts) with the   *)
(*           order planner (sdk/orders.ts, src/unnamed/part_002), the      *)
(*           position tracker and the quoter, against a venue that         *)
(*           answers atomic submissions and user-snapshot fetches.         *)
(*   SpecQuoter  PositionTracker.getQuotingContext and Quoter.getQuotes    *)
(*           as pure functions of fair price, position and BBO.            *)
(*                                                                         *)
(* Prices are integers in units of 1/TickUnits tick and sizes integers in  *)
(* units of 1/LotUnits lot, so that unaligned prices and sizes exist.      *)
(*                                                                         *)
(* JavaScript runs one callback at a time: every action below is one       *)
(* callback (or the continuation of one await) run to its next await.      *)
(***************************************************************************)
EXTENDS Integers, Sequences, FiniteSets, TLC

(***************************************************************************)
(* Bounds of the model.                                                    *)
(***************************************************************************)
\* update ids the venue hands out are 1..MaxId
MaxId == 3
\* the delta buffer holds at most MaxBuf messages before the snapshot arrives
MaxBuf == 2
\* subscriptions opened in one run (one by connect, the others by reconnects)
MaxSubs == 2
\* order ids the venue hands out are 1..MaxOrders
MaxOrders == 3
\* the clock advances MaxTicks times, by minOrderAgeMs each time
MaxTicks == 1
\* executeUpdate invocations that may be past the guard at once
MaxJobs == 2

(***************************************************************************)
(* Program constants.                                                      *)
(***************************************************************************)
MAX_LEVELS == 100

MAX_ATOMIC_ACTIONS == 4

\* DEFAULT_CONFIG
spreadBps == 10
takeProfitBps == 5
requoteThresholdBps == 3
minOrderAgeMs == 10000
orderSizeUsd == 100
closeThresholdUsd == 10
updateThrottleMs == 100

RECONNECT_DELAY_MS == 3000

STALE_THRESHOLD_MS == 60000

STALE_CHECK_INTERVAL_MS == 10000
referenceStaleMs == 20000
referenceHealthCheckMs == 5000
positionSyncIntervalMs == 5000

\* capacity of the sample buffer of the fair-price calculator (500 in the
\* source), scaled down so that the buffer wraps around
MAX_SAMPLES == 4

\* fairPriceWindowMs / 1000 (300 in the default config), scaled down
WindowSeconds == 3

\* config.warmupSeconds, the minSamples of the calculator (10 in the default
\* config), scaled down
warmupSeconds == 2

\* the clock of the fair-price calculator runs up to MaxSeconds seconds
MaxSeconds == 6

\* the position of the tracker stays within MaxLots lots, long or short
MaxLots == 2

\* fills the venue reports in one behaviour of the fill callback
MaxFills == 2

\* health-check periods the clock of the failover runs through
MaxChecks == 6

\* syncQuotes runs of the simulated-exchange bot
MaxCycles == 4

\* entries of one delta for one side
MaxEntries == 2

\* staleness-check periods the clock of the orderbook stream runs through
MaxPeriods == 8

\* prices a reference feed hands to onPrice
MaxPrices == 2

\* the market found by initialize(): tick 10^-priceDecimals, lot 10^-sizeDecimals
priceDecimals == 1
sizeDecimals == 2

\* a price (number) is an integer count of 1/TickUnits tick,
\* a size (number) an integer count of 1/LotUnits lot
TickUnits == 2
LotUnits == 200

\* Number(x) of an entry that is not numeric: filtered by normalizeEntries
NaN == -1

VARIABLES
    \* ---- ZoOrderbookStream fields
    subscription,       \* 0 (null) or the id of the subscription held
    bids,               \* OrderbookSide: [levels, sortedPrices]
    asks,
    latestPrice,        \* NoPrice or [mid, bid, ask]
    lastUpdateId,
    lastUpdateTime,     \* 0, or 1 for "a message has been received since the reset"
    isClosing,
    staleCheckInterval, \* the 10 s interval is running
    reconnectTimeout,   \* the 3 s reconnect timer is pending
    snapshotLoaded,
    deltaBuffer,        \* messages buffered until the snapshot is loaded
    \* ---- environment of the stream
    connectCalled,      \* the orchestrator has called connect()
    subs,               \* every subscription opened so far: "open", "closing", "closed"
    fetches,            \* nord.getOrderbook calls in flight: [sub, kind]
    \* ---- history of the stream (written, never read, by the program)
    maxReceived,        \* greatest update id delivered by a message since the last resetState
    snapU,              \* update id of the snapshot now loaded, -1 if none
    hs,                 \* steps of the handshake since the last resetState
    obOp,               \* the last operation of the stream and its input
    \* ---- MarketMaker fields
    activeOrders,       \* sequence of CachedOrder
    orderFirstSeenMs,   \* Map<orderId, ms>
    isUpdating,
    fetchInfoPromise,   \* a user.fetchInfo() is in flight
    \* ---- PositionTracker
    baseSize,
    \* ---- continuations and environment of the market maker
    jobs,               \* executeUpdate invocations awaiting user.atomic
    syncWaiting,        \* syncOrders has a then-callback on fetchInfoPromise
    venueOrders,        \* the account's resting orders on the venue
    nextOrderId,        \* next order id the venue hands out
    now,                \* Date.now()
    \* ---- history of the market maker (written, never read, by the program)
    mmOp,               \* the last operation of the market maker and what it computed
    \* ---- SpecQuoter: one call of the quoter
    qIn,                \* its input
    qOut,               \* the quotes it returned
    \* ---- SpecGuard: one call of applyRequoteGuard
    gIn,                \* its input: the proposed quotes, the cache, the ages, the config
    gOut,               \* what it returned, under the config and under a lower one
    \* ---- FairPriceCalculator fields
    samples,            \* the circular buffer: index -> [offset, second]
    head,               \* next write position
    count,              \* actual sample count
    lastSecond,         \* last recorded second
    \* ---- history of the calculator (written, never read, by the program)
    fpOp,               \* the last direct call of the calculator, its input and result
    fpPrev,             \* the getFairPrice call before it, if no addSample came between
    \* ---- MarketMaker: price feeds and the throttled update
    referenceFeed,      \* a reference feed is in use (the field is not null)
    lastReferencePriceAt,
    zoLatest,           \* orderbookStream.getMidPrice(): [known, mid, timestamp]
    refLatest,          \* referenceFeed.getMidPrice(): [known, mid, timestamp]
    lastLoggedSampleCount,
    hasLoggedZoOnlyReady,
    thWaiting,          \* the timer of the throttle is pending
    thArgs,             \* the fair price the throttle holds for its trailing call
    thDeadline,         \* when the timer of the throttle is due
    \* ---- history of the price handlers (written, never read, by the program)
    wuOp,               \* the last handler: what it handed over and started
    \* ---- PositionTracker: the sync loop
    isRunning,          \* PositionTracker.isRunning
    syncLoop,           \* where syncLoop stands: "idle", "syncFromServer", "sleep", "returned"
    sleepUntil,         \* when the timer of sleep() is due
    \* ---- history of the position tracker (written, never read, by the program)
    psOp,               \* the last operation of the tracker and what it read
    \* ---- AccountStream fields
    trackedOrders,      \* AccountStream.orders: Map<orderId, TrackedOrder>
    onFill,             \* a fill callback is registered (the field is not null)
    \* ---- history of the account stream (written, never read, by the program)
    acOp,               \* the last message, the map before it, the callbacks it made
    \* ---- MarketMaker: the fill callback
    cancelJobs,         \* cancelOrders calls of cancelOrdersAsync awaiting user.atomic
    \* ---- history of the fill callback (written, never read, by the program)
    fillOp,             \* the last fill: the modes around it and what it initiated,
                        \* and the ids whose cancel-all has been confirmed
    \* ---- MarketMaker: feed failover
    referenceFeedPriority,
    referenceFeedIndex,
    enableFeedFailover, \* config.enableFeedFailover
    referenceFeedHealthInterval, \* the health-check interval is set
    healthDueAt,        \* when the health-check interval fires next
    \* ---- history of the failover (written, never read, by the program)
    foOp,               \* the last health check, and when the current feed was brought up
    \* ---- the venue: user snapshots
    userFetches,        \* user.fetchInfo() calls of safeFetchInfo that have not settled
    \* ---- history of safeFetchInfo (written, never read, by the program)
    reOp,               \* the last request or settlement, who asked, who was waiting
    \* ---- MarketMaker: running flag, intervals, streams and shutdown()
    mmIsRunning,        \* MarketMaker.isRunning
    intervals,          \* which of statusInterval and orderSyncInterval are set
    closedStreams,      \* the streams close() was called on
    shPhase,            \* "running", "cancelling" (shutdown awaits cancelOrders), "exited"
    shOrders,           \* the orders shutdown() handed to cancelOrders
    shCancelled,        \* ids of the orders the venue cancelled for shutdown()
    exitCode,           \* the code given to process.exit, if it was called
    \* ---- the simulated-exchange bot: SimulatedExchange and MarketMakerBot
    openOrders,         \* SimulatedExchange.openOrders, in insertion order
    midPrice,           \* SimulatedExchange.midPrice, in cents
    maxActiveOrders,    \* BotConfig.maxActiveOrders
    interval,           \* MarketMakerBot.interval is set
    simNextId,          \* the next order id of the simulated exchange
    simOp,              \* the last operation of the bot (written, never read)
    \* ---- one OrderbookSide on its own
    obSide,             \* its levels and sortedPrices
    obSideIsAsk,        \* its isAsk
    obSideOp,           \* the last applyDeltas: the side before, the entries, needsSort
    \* ---- the timers of the orderbook stream under a clock
    staleDueAt,         \* when the staleness interval fires next, once it is set
    reconnectDueAt,     \* when the reconnect timer fires, while it is pending
    quietSince,         \* when the last message arrived or, later, the state was reset
    stOp,               \* the last staleness check (written, never read)
    \* ---- a reference feed (BinancePriceFeed or CoinbasePriceFeed) and its socket
    feed,               \* the fields of the feed, and the state of its WebSocket
    feedOp              \* the last callback of the feed (written, never read)

obVars == <<subscription, bids, asks, latestPrice, lastUpdateId, lastUpdateTime,
            isClosing, staleCheckInterval, reconnectTimeout, snapshotLoaded,
            deltaBuffer, connectCalled, subs, fetches, maxReceived,
            snapU, hs, obOp>>

mmVars == <<activeOrders, orderFirstSeenMs, isUpdating, fetchInfoPromise, baseSize,
            jobs, syncWaiting, venueOrders, nextOrderId, now, mmOp>>

quVars == <<qIn, qOut>>

guVars == <<gIn, gOut>>

fpVars == <<samples, head, count, lastSecond, fpOp, fpPrev>>

wuVars == <<referenceFeed, lastReferencePriceAt, zoLatest, refLatest,
            lastLoggedSampleCount, hasLoggedZoOnlyReady, thWaiting, thArgs,
            thDeadline, wuOp>>

psVars == <<isRunning, syncLoop, sleepUntil, psOp>>

acVars == <<trackedOrders, onFill, acOp>>

fiVars == <<cancelJobs, fillOp>>

foVars == <<referenceFeedPriority, referenceFeedIndex, enableFeedFailover,
            referenceFeedHealthInterval, healthDueAt, foOp>>

reVars == <<userFetches, reOp>>

shVars == <<mmIsRunning, intervals, closedStreams, shPhase, shOrders, shCancelled, exitCode>>

simVars == <<openOrders, midPrice, maxActiveOrders, interval, simNextId, simOp>>

sdVars == <<obSide, obSideIsAsk, obSideOp>>

stVars == <<staleDueAt, reconnectDueAt, quietSince, stOp>>

pfVars == <<feed, feedOp>>

vars == <<obVars, mmVars, quVars, guVars, fpVars, wuVars, psVars, acVars, fiVars, foVars, reVars, shVars, simVars, sdVars, stVars, pfVars>>

(***************************************************************************)
(* Initial values of the market maker and of the quoter call.              *)
(***************************************************************************)
NoMMOp ==
    [name |-> "init", fairPrice |-> 0, base |-> 0, allowed |-> <<>>,
     live |-> <<>>, proposed |-> <<>>, replaced |-> {}, targets |-> <<>>,
     kept |-> <<>>,
     cancels |-> <<>>, places |-> <<>>, actions |-> <<>>, sent |-> <<>>,
     got |-> 0, posted |-> 0, placed |-> <<>>, result |-> <<>>]

NoBBO == [known |-> FALSE, bestBid |-> 0, bestAsk |-> 0]

NoQuoterCall == [fairPrice |-> 0, base |-> 0, bbo |-> NoBBO, allowed |-> <<>>,
                 isCloseMode |-> FALSE, alignedSize |-> 0]

\* the market maker of an account that is flat and has no resting order
InitMMVars ==
    /\ activeOrders = <<>>
    /\ orderFirstSeenMs = [id \in {} |-> 0]
    /\ isUpdating = FALSE
    /\ fetchInfoPromise = FALSE
    /\ baseSize = 0
    /\ jobs = <<>>
    /\ syncWaiting = FALSE
    /\ venueOrders = {}
    /\ nextOrderId = 1
    /\ now = 0
    /\ mmOp = NoMMOp

InitQuVars ==
    /\ qIn = NoQuoterCall
    /\ qOut = <<>>

NoGuardCall == [quotes |-> <<>>, orders |-> <<>>, firstSeen |-> <<>>, now |-> 0,
                config |-> <<>>, lower |-> <<>>]

InitGuVars ==
    /\ gIn = NoGuardCall
    /\ gOut = <<>>

\* number | null
Null == [isNull |-> TRUE, value |-> 0]

Number(x) == [isNull |-> FALSE, value |-> x]

NoFpOp == [name |-> "init", now |-> 0, ref |-> 0, stored |-> FALSE, result |-> Null]

\* getMidPrice() of a feed that has emitted no price
NoMidPrice == [known |-> FALSE, mid |-> 0, timestamp |-> 0]

NoWuOp == [name |-> "init", feed |-> TRUE, admitted |-> FALSE, tsDiff |-> 0,
           handed |-> FALSE, started |-> FALSE, fairPrice |-> 0, inWindow |-> 0]

\* the price handlers before the first price, with a reference feed in use
InitWuVars ==
    /\ referenceFeed = TRUE
    /\ lastReferencePriceAt = 0
    /\ zoLatest = NoMidPrice
    /\ refLatest = NoMidPrice
    /\ lastLoggedSampleCount = -1
    /\ hasLoggedZoOnlyReady = FALSE
    /\ thWaiting = FALSE
    /\ thArgs = Null
    /\ thDeadline = 0
    /\ wuOp = NoWuOp

\* a position the server reports for no market: pos?.perp is undefined
NoPerp == [perp |-> FALSE, isLong |-> FALSE, baseSize |-> 0]

NoPsOp == [name |-> "init", before |-> 0, perp |-> NoPerp, at |-> 0]

\* a tracker whose startSync has not been called
InitPsVars ==
    /\ isRunning = FALSE
    /\ syncLoop = "idle"
    /\ sleepUntil = 0
    /\ psOp = NoPsOp

\* an account update that carries nothing
NoAccountUpdate == [places |-> <<>>, fills |-> <<>>, cancels |-> {}]

NoAcOp == [name |-> "init", data |-> NoAccountUpdate, before |-> <<>>, events |-> <<>>]

\* an account stream before syncOrders and setOnFill
InitAcVars ==
    /\ trackedOrders = <<>>
    /\ onFill = FALSE
    /\ acOp = NoAcOp

NoFillOp == [name |-> "init", n |-> 0, side |-> "", size |-> 0, price |-> 0, before |-> 0,
             wasCloseMode |-> FALSE, isCloseMode |-> FALSE, cached |-> <<>>,
             initiated |-> <<>>, confirmed |-> {}, marketId |-> 0]

\* no fill yet, no cancel in flight
InitFiVars ==
    /\ cancelJobs = <<>>
    /\ fillOp = NoFillOp

NoFoOp == [name |-> "init", upAt |-> 0, at |-> 0, lastPriceAt |-> 0, switched |-> FALSE]

\* a market maker configured for binance, with no health check
InitFoVars ==
    /\ referenceFeedPriority = <<"binance", "coinbase", "zo">>
    /\ referenceFeedIndex = 0
    /\ enableFeedFailover = FALSE
    /\ referenceFeedHealthInterval = FALSE
    /\ healthDueAt = 0
    /\ foOp = NoFoOp

NoStOp == [name |-> "init", at |-> 0, open |-> FALSE, closing |-> FALSE,
           lastUpdateTime |-> 0, quietSince |-> 0, forced |-> FALSE]

NoFeedOp == [name |-> "init", closed |-> FALSE, by |-> "", prices |-> 0]

\* a feed as its constructor leaves it; socket is the state of the WebSocket the
\* feed has created, "none" before it creates one and after its close event
NewFeed(kind) ==
    [kind |-> kind, ws |-> FALSE, socket |-> "none", isClosing |-> FALSE,
     reconnectTimeout |-> FALSE, pingInterval |-> FALSE, pongTimeout |-> FALSE,
     staleCheckInterval |-> FALSE, lastMessageTime |-> 0]

InitPfVars ==
    /\ feed = NewFeed("binance")
    /\ feedOp = NoFeedOp

\* a stream with no timer set
InitStVars ==
    /\ staleDueAt = 0
    /\ reconnectDueAt = 0
    /\ quietSince = 0
    /\ stOp = NoStOp

NoSideOp == [name |-> "init", before |-> [levels |-> << >>, sortedPrices |-> << >>],
             entries |-> << >>, needsSort |-> FALSE]

\* a bid side just constructed
InitSdVars ==
    /\ obSide = [levels |-> << >>, sortedPrices |-> << >>]
    /\ obSideIsAsk = FALSE
    /\ obSideOp = NoSideOp

NoSimOp == [name |-> "init", before |-> 0, cancelled |-> 0, placed |-> 0]

\* a simulated exchange and a bot just constructed, with the default configuration
InitSimVars ==
    /\ openOrders = <<>>
    /\ midPrice = 100000
    /\ maxActiveOrders = 4
    /\ interval = FALSE
    /\ simNextId = 1
    /\ simOp = NoSimOp

\* run() has called initialize() and startIntervals(), no signal has arrived
InitShVars ==
    /\ mmIsRunning = TRUE
    /\ intervals = {"status", "orderSync"}
    /\ closedStreams = {}
    /\ shPhase = "running"
    /\ shOrders = <<>>
    /\ shCancelled = {}
    /\ exitCode = [isNull |-> TRUE, value |-> 0]

NoReOp == [name |-> "init", requester |-> "", started |-> FALSE, waiters |-> {}]

\* no user snapshot asked for yet
InitReVars ==
    /\ userFetches = 0
    /\ reOp = NoReOp

\* a calculator that has recorded nothing
InitFpVars ==
    /\ samples = [i \in {} |-> 0]
    /\ head = 0
    /\ count = 0
    /\ lastSecond = 0
    /\ fpOp = NoFpOp
    /\ fpPrev = NoFpOp

(***************************************************************************)
(* Maps (JavaScript Map<number, number>) as functions.                     *)
(***************************************************************************)
EmptyMap == [p \in {} |-> 0]

MapSet(m, k, v) == [p \in (DOMAIN m) \cup {k} |-> IF p = k THEN v ELSE m[p]]

MapDelete(m, k) == [p \in (DOMAIN m) \ {k} |-> m[p]]

Min(a, b) == IF a <= b THEN a ELSE b

Max(a, b) == IF a >= b THEN a ELSE b

(***************************************************************************)
(* OrderbookSide                                                           *)
(***************************************************************************)
\* Array.from(keys).sort(): ascending for asks, descending for bids
RECURSIVE SortPrices(_, _)
SortPrices(S, isAsk) ==
    IF S = {} THEN <<>>
    ELSE LET m  == CHOOSE x \in S : Cardinality({y \in S : y < x}) = Cardinality(S) \div 2
             lo == {y \in S : y < m}
             hi == {y \in S : y > m}
         IN  IF isAsk THEN SortPrices(lo, isAsk) \o <<m>> \o SortPrices(hi, isAsk)
                      ELSE SortPrices(hi, isAsk) \o <<m>> \o SortPrices(lo, isAsk)

\* rebuildSortedPrices: sort the keys, keep the first MAX_LEVELS, delete the rest
rebuildSortedPrices(levels, isAsk) ==
    LET sorted == SortPrices(DOMAIN levels, isAsk)
        kept   == SubSeq(sorted, 1, Min(Len(sorted), MAX_LEVELS))
        keys   == {kept[i] : i \in 1..Len(kept)}
    IN  [levels |-> [p \in keys |-> levels[p]], sortedPrices |-> kept]

\* the loop of applyDeltas over the entries: size 0 deletes, another size sets
RECURSIVE ApplyEntries(_, _, _)
ApplyEntries(levels, needsSort, entries) ==
    IF entries = <<>> THEN [levels |-> levels, needsSort |-> needsSort]
    ELSE LET e == Head(entries)
         IN  IF e.size = 0
             THEN IF e.price \in DOMAIN levels
                  THEN ApplyEntries(MapDelete(levels, e.price), TRUE, Tail(entries))
                  ELSE ApplyEntries(levels, needsSort, Tail(entries))
             ELSE ApplyEntries(MapSet(levels, e.price, e.size),
                               needsSort \/ e.price \notin DOMAIN levels,
                               Tail(entries))

\* an applyDeltas that never re-sorts
applyDeltas_Stale(side, isAsk, entries) ==
    [levels |-> ApplyEntries(side.levels, FALSE, entries).levels,
     sortedPrices |-> side.sortedPrices]

applyDeltas(side, isAsk, entries) ==
    LET r == ApplyEntries(side.levels, FALSE, entries)
    IN  IF r.needsSort
        THEN rebuildSortedPrices(r.levels, isAsk)
        ELSE [levels |-> r.levels, sortedPrices |-> side.sortedPrices]

\* the loop of setSnapshot: only entries with size > 0 are stored
RECURSIVE SnapshotLevels(_, _)
SnapshotLevels(levels, entries) ==
    IF entries = <<>> THEN levels
    ELSE LET e == Head(entries)
         IN  SnapshotLevels(IF e.size > 0 THEN MapSet(levels, e.price, e.size)
                                          ELSE levels,
                            Tail(entries))

setSnapshot(isAsk, entries) ==
    rebuildSortedPrices(SnapshotLevels(EmptyMap, entries), isAsk)

ClearedSide == [levels |-> EmptyMap, sortedPrices |-> <<>>]

NoBest == 0

getBest(side) == IF Len(side.sortedPrices) > 0 THEN side.sortedPrices[1] ELSE NoBest

(***************************************************************************)
(* The venue: update k is one fixed delta, and the REST snapshot with      *)
(* update id U is the venue's book after updates 1..U.                     *)
(***************************************************************************)
\* normalizeEntries: entries whose price or size is not a number are dropped
normalizeEntries(entries) ==
    LET Numeric(e) == e.price # NaN /\ e.size # NaN
    IN  SelectSeq(entries, Numeric)

DeltaBids(k) ==
    IF k % 2 = 1 THEN <<[price |-> 12, size |-> ((k \div 2) + 1) % 2]>> ELSE <<>>

DeltaAsks(k) ==
    IF k % 2 = 0
    THEN <<[price |-> 14, size |-> (k \div 2) % 2]>>
         \o (IF k % 4 = 0 THEN <<[price |-> NaN, size |-> 1]>> ELSE <<>>)
    ELSE <<>>

\* the WebSocketDeltaUpdate with update_id k
DeltaOf(k) == [update_id |-> k, bids |-> DeltaBids(k), asks |-> DeltaAsks(k)]

RECURSIVE VenueLevels(_, _)
VenueLevels(U, isAsk) ==
    IF U = 0
    THEN IF isAsk THEN MapSet(EmptyMap, 16, 1) ELSE MapSet(EmptyMap, 10, 1)
    ELSE ApplyEntries(VenueLevels(U - 1, isAsk), FALSE,
                      normalizeEntries(IF isAsk THEN DeltaAsks(U) ELSE DeltaBids(U))).levels

RECURSIVE LevelEntries(_, _)
LevelEntries(levels, S) ==
    IF S = {} THEN <<>>
    ELSE LET p == CHOOSE x \in S : \A y \in S : x <= y
         IN  <<[price |-> p, size |-> levels[p]]>> \o LevelEntries(levels, S \ {p})

\* the response of nord.getOrderbook when the venue is at update id U
SnapshotOf(U) ==
    [updateId |-> U,
     bids |-> LevelEntries(VenueLevels(U, FALSE), DOMAIN VenueLevels(U, FALSE)),
     asks |-> LevelEntries(VenueLevels(U, TRUE), DOMAIN VenueLevels(U, TRUE))
              \o <<[price |-> 18, size |-> 0]>>]

(***************************************************************************)
(* ZoOrderbookStream: the synchronous pieces, on a record st of its fields.*)
(***************************************************************************)
NoPrice == [mid |-> 0, bid |-> 0, ask |-> 0]

NoOp == [name |-> "init", id |-> 0, buf |-> <<>>, applied |-> <<>>]

StreamState ==
    [bids |-> bids, asks |-> asks, latestPrice |-> latestPrice,
     lastUpdateId |-> lastUpdateId, lastUpdateTime |-> lastUpdateTime,
     snapshotLoaded |-> snapshotLoaded, deltaBuffer |-> deltaBuffer,
     maxReceived |-> maxReceived, applied |-> <<>>,
     snapU |-> snapU, hs |-> hs]

\* emitPrice: nothing is emitted unless both sides have a best price
emitPrice(st) ==
    LET bestBid == getBest(st.bids)
        bestAsk == getBest(st.asks)
    IN  IF bestBid = NoBest \/ bestAsk = NoBest
        THEN st
        ELSE [st EXCEPT !.latestPrice =
                 [mid |-> (bestBid + bestAsk) \div 2, bid |-> bestBid, ask |-> bestAsk]]

handleUpdate_NoStaleCheck(st, data) ==
    IF ~st.snapshotLoaded THEN st
    ELSE emitPrice([st EXCEPT
             !.lastUpdateId = data.update_id,
             !.bids = applyDeltas(st.bids, FALSE, normalizeEntries(data.bids)),
             !.asks = applyDeltas(st.asks, TRUE, normalizeEntries(data.asks)),
             !.applied = Append(st.applied, data.update_id)])

\* handleUpdate: skipped until the snapshot is loaded; a delta with
\* update_id <= lastUpdateId is skipped; any other sets lastUpdateId, is applied
\* to both sides and a price is emitted
handleUpdate(st, data) ==
    IF ~st.snapshotLoaded THEN st
    ELSE IF data.update_id <= st.lastUpdateId
    THEN st
    ELSE emitPrice([st EXCEPT
             !.lastUpdateId = data.update_id,
             !.bids = applyDeltas(st.bids, FALSE, normalizeEntries(data.bids)),
             !.asks = applyDeltas(st.asks, TRUE, normalizeEntries(data.asks)),
             !.applied = Append(st.applied, data.update_id)])

\* resetState
resetState(st) ==
    [st EXCEPT !.bids = ClearedSide, !.asks = ClearedSide, !.latestPrice = NoPrice,
               !.lastUpdateId = 0, !.lastUpdateTime = 0, !.snapshotLoaded = FALSE,
               !.deltaBuffer = <<>>,
               !.maxReceived = 0, !.applied = <<>>,
               !.snapU = -1, !.hs = <<"reset">>]

\* fetchSnapshot after the await: the response is loaded and a price emitted
loadSnapshot(st, response) ==
    emitPrice([st EXCEPT
        !.bids = setSnapshot(FALSE, normalizeEntries(response.bids)),
        !.asks = setSnapshot(TRUE, normalizeEntries(response.asks)),
        !.lastUpdateId = response.updateId,
        !.snapshotLoaded = TRUE,
        !.applied = <<>>, !.snapU = response.updateId,
        !.hs = Append(st.hs, "snapshot")])

RECURSIVE HandleAll(_, _)
HandleAll(st, deltas) ==
    IF deltas = <<>> THEN st
    ELSE HandleAll(handleUpdate(st, Head(deltas)), Tail(deltas))

applyBufferedDeltas_OffByOne(st) ==
    LET Valid(d) == d.update_id > st.lastUpdateId + 1
        validDeltas == SelectSeq(st.deltaBuffer, Valid)
        after == HandleAll(st, validDeltas)
    IN  [after EXCEPT !.deltaBuffer = <<>>, !.hs = Append(after.hs, "replay")]

\* applyBufferedDeltas: the buffered deltas with update_id > lastUpdateId (the
\* snapshot's) go through handleUpdate in order; the buffer is emptied
applyBufferedDeltas(st) ==
    LET Valid(d) == d.update_id > st.lastUpdateId
        validDeltas == SelectSeq(st.deltaBuffer, Valid)
        after == HandleAll(st, validDeltas)
    IN  [after EXCEPT !.deltaBuffer = <<>>, !.hs = Append(after.hs, "replay")]

\* the message handler of setupEventHandlers
onMessage(st, data, at) ==
    LET t == [st EXCEPT !.lastUpdateTime = at,
                        !.maxReceived = Max(st.maxReceived, data.update_id)]
    IN  IF ~t.snapshotLoaded
        THEN [t EXCEPT !.deltaBuffer = Append(t.deltaBuffer, data)]
        ELSE handleUpdate(t, data)

\* the fields of st written back to the stream
Store(st) ==
    /\ bids' = st.bids
    /\ asks' = st.asks
    /\ latestPrice' = st.latestPrice
    /\ lastUpdateId' = st.lastUpdateId
    /\ lastUpdateTime' = st.lastUpdateTime
    /\ snapshotLoaded' = st.snapshotLoaded
    /\ deltaBuffer' = st.deltaBuffer
    /\ maxReceived' = st.maxReceived
    /\ snapU' = st.snapU
    /\ hs' = st.hs

bookVars == <<bids, asks, latestPrice, lastUpdateId, lastUpdateTime, snapshotLoaded,
              deltaBuffer, maxReceived, snapU, hs>>

(***************************************************************************)
(* ZoOrderbookStream: the callbacks.                                       *)
(***************************************************************************)
NewSub == Len(subs) + 1

\* subscribeOrderbook + setupEventHandlers + the call of nord.getOrderbook
Subscribe(kind) ==
    /\ subs' = Append(subs, "open")
    /\ subscription' = NewSub
    /\ fetches' = fetches \cup {[sub |-> NewSub, kind |-> kind]}

\* connect() up to its await
connect ==
    /\ ~connectCalled
    /\ connectCalled' = TRUE
    /\ subscription = 0
    /\ Len(subs) < MaxSubs
    /\ LET st == resetState(StreamState)
       IN  Store([st EXCEPT !.hs = Append(st.hs, "subscribe")])
    /\ Subscribe("connect")
    /\ obOp' = [NoOp EXCEPT !.name = "connect"]
    /\ UNCHANGED <<isClosing, staleCheckInterval, reconnectTimeout>>

\* connect() up to its await, in a stream without a clock
Connect ==
    /\ connect
    /\ UNCHANGED <<mmVars, quVars, guVars, fpVars, wuVars, psVars, acVars, fiVars, foVars, reVars, shVars, simVars, sdVars, stVars, pfVars>>

\* a delta message arrives on an open subscription
messageEvent(k, at) ==
    /\ \E s \in 1..Len(subs) : subs[s] = "open"
    /\ snapshotLoaded \/ Len(deltaBuffer) < MaxBuf
    /\ Store(onMessage(StreamState, DeltaOf(k), at))
    /\ obOp' = [NoOp EXCEPT !.name = "message", !.id = k]
    /\ UNCHANGED <<subscription, isClosing, staleCheckInterval, reconnectTimeout,
                   connectCalled, subs, fetches>>

\* a delta message arrives, in a stream without a clock: Date.now() is some positive time
OnMessage(k) ==
    /\ messageEvent(k, 1)
    /\ UNCHANGED <<mmVars, quVars, guVars, fpVars, wuVars, psVars, acVars, fiVars, foVars, reVars, shVars, simVars, sdVars, stVars, pfVars>>

\* scheduleReconnect, called with the subscriptions as they are in sb
ScheduleReconnect(sb, sub) ==
    IF reconnectTimeout
    THEN /\ subs' = sb
         /\ subscription' = sub
         /\ UNCHANGED reconnectTimeout
    ELSE /\ subs' = IF sub # 0 THEN [sb EXCEPT ![sub] = "closing"] ELSE sb
         /\ subscription' = 0
         /\ reconnectTimeout' = TRUE

\* the "close" handler of subscription s: the socket was closed by the network
\* (s was open) or by an earlier subscription.close() (s was closing)
closeEvent(s) ==
    /\ s \in 1..Len(subs)
    /\ subs[s] \in {"open", "closing"}
    /\ obOp' = [NoOp EXCEPT !.name = "closeEvent", !.id = s]
    /\ IF isClosing
       THEN /\ subs' = [subs EXCEPT ![s] = "closed"]
            /\ UNCHANGED <<subscription, reconnectTimeout>>
       ELSE ScheduleReconnect([subs EXCEPT ![s] = "closed"], 0)
    /\ UNCHANGED <<bookVars, isClosing, staleCheckInterval, connectCalled, fetches>>

\* the "close" handler, in a stream without a clock
OnClose(s) ==
    /\ closeEvent(s)
    /\ UNCHANGED <<mmVars, quVars, guVars, fpVars, wuVars, psVars, acVars, fiVars, foVars, reVars, shVars, simVars, sdVars, stVars, pfVars>>

\* the staleness interval fires and finds the last message too old
StaleCheck ==
    /\ staleCheckInterval
    /\ ~isClosing
    /\ lastUpdateTime > 0
    /\ obOp' = [NoOp EXCEPT !.name = "stale"]
    /\ ScheduleReconnect(subs, subscription)
    /\ UNCHANGED <<bookVars, isClosing, staleCheckInterval, connectCalled, fetches>>
    /\ UNCHANGED <<mmVars, quVars, guVars, fpVars, wuVars, psVars, acVars, fiVars, foVars, reVars, shVars, simVars, sdVars, stVars, pfVars>>

\* the reconnect timer fires: reconnect() up to its await
reconnect ==
    /\ reconnectTimeout
    /\ Len(subs) < MaxSubs
    /\ reconnectTimeout' = FALSE
    /\ LET st == resetState(StreamState)
       IN  Store([st EXCEPT !.hs = Append(st.hs, "subscribe")])
    /\ Subscribe("reconnect")
    /\ obOp' = [NoOp EXCEPT !.name = "reconnect"]
    /\ UNCHANGED <<isClosing, staleCheckInterval, connectCalled>>

\* the reconnect timer fires, in a stream without a clock
ReconnectTimer ==
    /\ reconnect
    /\ UNCHANGED <<mmVars, quVars, guVars, fpVars, wuVars, psVars, acVars, fiVars, foVars, reVars, shVars, simVars, sdVars, stVars, pfVars>>

BufferIds(buf) == [i \in 1..Len(buf) |-> buf[i].update_id]

\* nord.getOrderbook of fetch f answers with the snapshot at update id U:
\* the rest of fetchSnapshot, then applyBufferedDeltas, then (connect only)
\* startStaleCheck
fetchOk(f, U) ==
    /\ f \in fetches
    /\ fetches' = fetches \ {f}
    /\ LET st == applyBufferedDeltas(loadSnapshot(StreamState, SnapshotOf(U)))
       IN  /\ Store(st)
           /\ obOp' = [name |-> "snapshot", id |-> U, buf |-> BufferIds(deltaBuffer),
                       applied |-> st.applied]
    /\ staleCheckInterval' = (staleCheckInterval \/ f.kind = "connect")
    /\ UNCHANGED <<subscription, isClosing, reconnectTimeout, connectCalled, subs>>

\* nord.getOrderbook answers, in a stream without a clock
FetchOk(f, U) ==
    /\ fetchOk(f, U)
    /\ UNCHANGED <<mmVars, quVars, guVars, fpVars, wuVars, psVars, acVars, fiVars, foVars, reVars, shVars, simVars, sdVars, stVars, pfVars>>

\* nord.getOrderbook of fetch f fails: fetchSnapshot rethrows and the caller ends
FetchFail(f) ==
    /\ f \in fetches
    /\ fetches' = fetches \ {f}
    /\ obOp' = [NoOp EXCEPT !.name = "fetchFail", !.id = f.sub]
    /\ UNCHANGED <<bookVars, subscription, isClosing, staleCheckInterval,
                   reconnectTimeout, connectCalled, subs>>
    /\ UNCHANGED <<mmVars, quVars, guVars, fpVars, wuVars, psVars, acVars, fiVars, foVars, reVars, shVars, simVars, sdVars, stVars, pfVars>>

\* the body of close()
close ==
    /\ isClosing' = TRUE
    /\ reconnectTimeout' = FALSE
    /\ staleCheckInterval' = FALSE
    /\ subs' = IF subscription # 0 THEN [subs EXCEPT ![subscription] = "closing"] ELSE subs
    /\ subscription' = 0
    /\ Store(resetState(StreamState))
    /\ obOp' = [NoOp EXCEPT !.name = "close"]
    /\ UNCHANGED <<connectCalled, fetches>>

\* close()
Close ==
    /\ connectCalled
    /\ ~isClosing
    /\ close
    /\ UNCHANGED <<mmVars, quVars, guVars, fpVars, wuVars, psVars, acVars, fiVars, foVars, reVars, shVars, simVars, sdVars, stVars, pfVars>>

InitOBVars ==
    /\ subscription = 0
    /\ bids = ClearedSide
    /\ asks = ClearedSide
    /\ latestPrice = NoPrice
    /\ lastUpdateId = 0
    /\ lastUpdateTime = 0
    /\ isClosing = FALSE
    /\ staleCheckInterval = FALSE
    /\ reconnectTimeout = FALSE
    /\ snapshotLoaded = FALSE
    /\ deltaBuffer = <<>>
    /\ connectCalled = FALSE
    /\ subs = <<>>
    /\ fetches = {}
    /\ maxReceived = 0
    /\ snapU = -1
    /\ hs = <<>>
    /\ obOp = NoOp

InitOB ==
    /\ InitOBVars
    /\ InitMMVars
    /\ InitQuVars
    /\ InitGuVars
    /\ InitFpVars
    /\ InitWuVars
    /\ InitPsVars
    /\ InitAcVars
    /\ InitFiVars
    /\ InitFoVars
    /\ InitReVars
    /\ InitShVars
    /\ InitSimVars
    /\ InitSdVars
    /\ InitStVars
    /\ InitPfVars

NextOB ==
    \/ Connect
    \/ \E k \in 1..MaxId : OnMessage(k)
    \/ \E s \in 1..MaxSubs : OnClose(s)
    \/ StaleCheck
    \/ ReconnectTimer
    \/ \E f \in fetches, U \in 0..MaxId : FetchOk(f, U)
    \/ \E f \in fetches : FetchFail(f)
    \/ Close

SpecOB == InitOB /\ [][NextOB]_vars

(***************************************************************************)
(* Claims about the orderbook stream.                                      *)
(***************************************************************************)
\* what a replay of the update ids `ids` on top of update id `last` applies:
\* in arrival order, each id greater than every id applied before it
RECURSIVE ReplayIds(_, _)
ReplayIds(last, ids) ==
    IF ids = <<>> THEN <<>>
    ELSE IF Head(ids) > last
         THEN <<Head(ids)>> \o ReplayIds(Head(ids), Tail(ids))
         ELSE ReplayIds(last, Tail(ids))

RECURSIVE ApplyIds(_, _, _)
ApplyIds(side, isAsk, ids) ==
    IF ids = <<>> THEN side
    ELSE ApplyIds(applyDeltas(side, isAsk,
                      normalizeEntries(IF isAsk THEN DeltaAsks(Head(ids))
                                                ELSE DeltaBids(Head(ids)))),
                  isAsk, Tail(ids))

Ids(seq) == {seq[i] : i \in 1..Len(seq)}

\* C1: when a snapshot with update id U has been loaded (on the connect or on a
\* reconnect), the deltas buffered until then have been replayed in arrival
\* order: exactly those with update_id > U and greater than the update id the
\* replay had reached were applied to the book, none with update_id <= U was,
\* lastUpdateId is the last applied update id (U if none) and the buffer is empty.
C1_ReplayAfterSnapshot ==
    obOp.name = "snapshot" =>
        LET U == obOp.id
            expected == ReplayIds(U, obOp.buf)
            snap == SnapshotOf(U)
        IN  /\ obOp.applied = expected
            /\ \A k \in Ids(obOp.buf) : k <= U => k \notin Ids(obOp.applied)
            /\ \A k \in Ids(obOp.applied) : k > U
            /\ deltaBuffer = <<>>
            /\ lastUpdateId = IF expected = <<>> THEN U ELSE expected[Len(expected)]
            /\ bids = ApplyIds(setSnapshot(FALSE, normalizeEntries(snap.bids)), FALSE, expected)
            /\ asks = ApplyIds(setSnapshot(TRUE, normalizeEntries(snap.asks)), TRUE, expected)

\* C1 witness: snapshot update id 2 with the buffer [1, 3]: 1 was discarded,
\* 3 was applied and lastUpdateId ended at 3
C1_Witness ==
    /\ obOp.name = "snapshot"
    /\ obOp.id = 2
    /\ obOp.buf = <<1, 3>>
    /\ obOp.applied = <<3>>
    /\ lastUpdateId = 3

ResetOps == {"connect", "reconnect", "close"}

\* C2: between two resets lastUpdateId never decreases; a delta handled while
\* the snapshot is loaded either has update_id <= lastUpdateId and leaves the
\* bid levels, the ask levels, lastUpdateId and the latest price unchanged, or
\* sets lastUpdateId to its own, strictly greater, update_id.
C2_LastUpdateIdMonotone ==
    [][ /\ (obOp'.name \notin ResetOps => lastUpdateId' >= lastUpdateId)
        /\ (obOp'.name = "message" /\ snapshotLoaded =>
                IF obOp'.id <= lastUpdateId
                THEN UNCHANGED <<bids, asks, lastUpdateId, latestPrice>>
                ELSE lastUpdateId' = obOp'.id /\ lastUpdateId' > lastUpdateId)
      ]_vars

IsPrefix(s, t) == Len(s) <= Len(t) /\ s = SubSeq(t, 1, Len(s))

\* reset, subscribe, then (snapshot, replay) any number of times
HandshakeOrder(n) ==
    [i \in 1..n |-> IF i = 1 THEN "reset"
                    ELSE IF i = 2 THEN "subscribe"
                    ELSE IF i % 2 = 1 THEN "snapshot" ELSE "replay"]

\* C3: after a connect or reconnect the stream resets, then subscribes, then
\* loads the snapshot, then replays; the book is untouched while the snapshot
\* is not loaded; and once the snapshot is loaded no delta delivered since the
\* subscription was opened with an update id above the snapshot's is lost: the
\* greatest update id delivered is accounted for by lastUpdateId.
C3_HandshakeLosesNoDelta ==
    /\ ~isClosing => IsPrefix(hs, HandshakeOrder(2 + 2 * MaxSubs))
    /\ ~snapshotLoaded => bids = ClearedSide /\ asks = ClearedSide
    /\ snapshotLoaded /\ ~isClosing /\ maxReceived > snapU => lastUpdateId >= maxReceived

(***************************************************************************)
(* PositionTracker (bots/mm/position.ts)                                   *)
(***************************************************************************)
Abs(x) == IF x < 0 THEN -x ELSE x

RECURSIVE Pow10(_)
Pow10(n) == IF n = 0 THEN 1 ELSE 10 * Pow10(n - 1)

\* units in 1.0 of price and in 1.0 of size
PriceScale == TickUnits * Pow10(priceDecimals)

SizeScale == LotUnits * Pow10(sizeDecimals)

\* close mode only when the exposure is strictly above the threshold
getState_StrictThreshold(base, fairPrice) ==
    [sizeBase |-> base,
     sizeUsd |-> base * fairPrice,
     isLong |-> base > 0,
     isCloseMode |-> Abs(base * fairPrice) > closeThresholdUsd * SizeScale * PriceScale]

getState(base, fairPrice) ==
    [sizeBase |-> base,
     sizeUsd |-> base * fairPrice,
     isLong |-> base > 0,
     isCloseMode |-> Abs(base * fairPrice) >= closeThresholdUsd * SizeScale * PriceScale]

getAllowedSides(state) ==
    IF state.isCloseMode
    THEN IF state.isLong THEN <<"ask">> ELSE <<"bid">>
    ELSE <<"bid", "ask">>

getQuotingContext(base, fairPrice) ==
    LET positionState == getState(base, fairPrice)
    IN  [fairPrice |-> fairPrice,
         positionState |-> positionState,
         allowedSides |-> getAllowedSides(positionState)]

(***************************************************************************)
(* Quoter (bots/mm/quoter.ts).  A Decimal is exact: a value that is not a  *)
(* whole number of units is passed as a fraction num / den.                *)
(***************************************************************************)
CeilDiv(a, b) == -((-a) \div b)

alignPrice_Unrounded(num, den, round) == num \div den

alignPrice(num, den, round) ==
    LET aligned == IF round = "floor" THEN num \div (den * TickUnits)
                                      ELSE CeilDiv(num, den * TickUnits)
    IN  aligned * TickUnits

alignSize(num, den) == (num \div (den * LotUnits)) * LotUnits

usdToSize(usd, fairPrice) == alignSize(usd * PriceScale * SizeScale, fairPrice)

\* allowedSides.includes(side)
includes_Always(allowedSides, side) == TRUE

includes(allowedSides, side) ==
    \E i \in 1..Len(allowedSides) : allowedSides[i] = side

\* the size taken from orderSizeUsd in every mode
quoteSize_UsdOnly(ctx) == (orderSizeUsd * PriceScale * SizeScale) \div ctx.fairPrice

\* the size getQuotes gives to every quote
quoteSize(ctx) ==
    IF ctx.positionState.isCloseMode
    THEN alignSize(Abs(ctx.positionState.sizeBase), 1)
    ELSE usdToSize(orderSizeUsd, ctx.fairPrice)

\* getQuotes without the two clamps to the BBO
getQuotes_NoClamp(ctx, bbo) ==
    LET fair == ctx.fairPrice
        bps == IF ctx.positionState.isCloseMode THEN takeProfitBps ELSE spreadBps
        size == quoteSize(ctx)
        bidPrice == alignPrice(fair * (10000 - bps), 10000, "floor")
        askPrice == alignPrice(fair * (10000 + bps), 10000, "ceil")
        bidQuotes == IF includes(ctx.allowedSides, "bid") /\ bidPrice > 0
                     THEN << [side |-> "bid", price |-> bidPrice, size |-> size] >>
                     ELSE <<>>
        askQuotes == IF includes(ctx.allowedSides, "ask") /\ askPrice > 0
                     THEN << [side |-> "ask", price |-> askPrice, size |-> size] >>
                     ELSE <<>>
    IN  IF size <= 0 THEN <<>> ELSE bidQuotes \o askQuotes

getQuotes(ctx, bbo) ==
    LET fair == ctx.fairPrice
        bps == IF ctx.positionState.isCloseMode THEN takeProfitBps ELSE spreadBps
        size == quoteSize(ctx)
        bid0 == alignPrice(fair * (10000 - bps), 10000, "floor")
        bidPrice == IF bbo.known /\ bid0 >= bbo.bestAsk
                    THEN alignPrice(bbo.bestAsk - TickUnits, 1, "floor")
                    ELSE bid0
        ask0 == alignPrice(fair * (10000 + bps), 10000, "ceil")
        askPrice == IF bbo.known /\ ask0 <= bbo.bestBid
                    THEN alignPrice(bbo.bestBid + TickUnits, 1, "ceil")
                    ELSE ask0
        bidQuotes == IF includes(ctx.allowedSides, "bid") /\ bidPrice > 0
                     THEN << [side |-> "bid", price |-> bidPrice, size |-> size] >>
                     ELSE <<>>
        askQuotes == IF includes(ctx.allowedSides, "ask") /\ askPrice > 0
                     THEN << [side |-> "ask", price |-> askPrice, size |-> size] >>
                     ELSE <<>>
    IN  IF size <= 0 THEN <<>> ELSE bidQuotes \o askQuotes

(***************************************************************************)
(* Order planner (sdk/orders.ts)                                           *)
(***************************************************************************)
Range(seq) == {seq[i] : i \in 1..Len(seq)}

Lowest(S) == CHOOSE x \in S : \A y \in S : x <= y

NoOrder == [orderId |-> 0, side |-> "", price |-> 0, size |-> 0]

buildPlaceAction(quote) ==
    [kind |-> "place", orderId |-> 0, side |-> quote.side,
     price |-> quote.price, size |-> quote.size]

buildCancelAction(orderId) ==
    [kind |-> "cancel", orderId |-> orderId, side |-> "", price |-> 0, size |-> 0]

orderMatchesQuote_SideOnly(order, quote) == order.side = quote.side

orderMatchesQuote(order, quote) ==
    /\ order.side = quote.side
    /\ order.price = quote.price
    /\ order.size = quote.size

\* updateQuotes up to its await: the diff and the action list
updateQuotes(currentOrders, newQuotes) ==
    LET Matching(q) == {i \in 1..Len(currentOrders) :
                            orderMatchesQuote(currentOrders[i], q)}
        Found(q) == Matching(q) # {}
        NotFound(q) == Matching(q) = {}
        matched == SelectSeq(newQuotes, Found)
        keptOrders == [i \in 1..Len(matched) |->
                            currentOrders[Lowest(Matching(matched[i]))]]
        NotKept(o) == o \notin Range(keptOrders)
        ordersToCancel == SelectSeq(currentOrders, NotKept)
        quotesToPlace == SelectSeq(newQuotes, NotFound)
    IN  [keptOrders |-> keptOrders,
         ordersToCancel |-> ordersToCancel,
         quotesToPlace |-> quotesToPlace,
         actions |->
            [i \in 1..Len(ordersToCancel) |-> buildCancelAction(ordersToCancel[i].orderId)]
            \o [i \in 1..Len(quotesToPlace) |-> buildPlaceAction(quotesToPlace[i])]]

\* actions.slice(i, i + MAX_ATOMIC_ACTIONS)
slice_ToEnd(actions, i) == SubSeq(actions, i + 1, Len(actions))

slice(actions, i) ==
    SubSeq(actions, i + 1, Min(i + MAX_ATOMIC_ACTIONS, Len(actions)))

IsPlace(a) == a.kind = "place"

RECURSIVE ExtractLoop(_, _, _, _)
ExtractLoop(results, placeActions, placeIdx, k) ==
    IF k > Len(results) THEN <<>>
    ELSE IF results[k].case = "placeOrderResult" /\ results[k].posted # 0
         THEN (IF placeIdx + 1 <= Len(placeActions)
               THEN << [orderId |-> results[k].posted,
                        side |-> placeActions[placeIdx + 1].side,
                        price |-> placeActions[placeIdx + 1].price,
                        size |-> placeActions[placeIdx + 1].size] >>
               ELSE <<>>)
              \o ExtractLoop(results, placeActions, placeIdx + 1, k + 1)
         ELSE ExtractLoop(results, placeActions, placeIdx, k + 1)

extractPlacedOrders_FirstOnly(result, actions) ==
    LET all == ExtractLoop(result, SelectSeq(actions, IsPlace), 0, 1)
    IN  IF all = <<>> THEN <<>> ELSE << all[1] >>

extractPlacedOrders(result, actions) ==
    ExtractLoop(result, SelectSeq(actions, IsPlace), 0, 1)

(***************************************************************************)
(* The venue: user.atomic(chunk) and user.fetchInfo().                     *)
(***************************************************************************)
\* the venue executes the actions of one chunk in order; flags[k] says
\* whether the place action k is posted (rests on the book under a new id)
RECURSIVE VenueAtomic(_, _, _, _, _)
VenueAtomic(orders, nextId, chunk, flags, k) ==
    IF k > Len(chunk)
    THEN [orders |-> orders, nextId |-> nextId, results |-> <<>>]
    ELSE IF chunk[k].kind = "cancel"
         THEN LET rest == VenueAtomic({o \in orders : o.orderId # chunk[k].orderId},
                                      nextId, chunk, flags, k + 1)
              IN  [rest EXCEPT !.results =
                       << [case |-> "cancelOrderResult", posted |-> 0] >> \o @]
         ELSE IF flags[k]
              THEN LET rest == VenueAtomic(
                                   orders \cup {[orderId |-> nextId, side |-> chunk[k].side,
                                                 price |-> chunk[k].price,
                                                 size |-> chunk[k].size]},
                                   nextId + 1, chunk, flags, k + 1)
                   IN  [rest EXCEPT !.results =
                            << [case |-> "placeOrderResult", posted |-> nextId] >> \o @]
              ELSE LET rest == VenueAtomic(orders, nextId, chunk, flags, k + 1)
                   IN  [rest EXCEPT !.results =
                            << [case |-> "placeOrderResult", posted |-> 0] >> \o @]

\* user.orders[accountId] after a fetchInfo: the resting orders by ascending id
RECURSIVE ApiOrders(_)
ApiOrders(S) ==
    IF S = {} THEN <<>>
    ELSE LET first == CHOOSE o \in S : \A p \in S : o.orderId <= p.orderId
         IN  << first >> \o ApiOrders(S \ {first})

\* a mapping that keeps the first order only
mapApiOrdersToCached_Head(orders) ==
    [i \in 1..Min(Len(orders), 1) |->
        [orderId |-> orders[i].orderId, side |-> orders[i].side,
         price |-> orders[i].price, size |-> orders[i].size]]

mapApiOrdersToCached(orders) ==
    [i \in 1..Len(orders) |->
        [orderId |-> orders[i].orderId, side |-> orders[i].side,
         price |-> orders[i].price, size |-> orders[i].size]]

(***************************************************************************)
(* MarketMaker (bots/mm/index.ts): the synchronous pieces.                 *)
(***************************************************************************)
OrderIds(orders) == {orders[i].orderId : i \in 1..Len(orders)}

\* refreshOrderAges(orders) at time t, on the map firstSeen
refreshOrderAges(firstSeen, orders, t) ==
    [id \in OrderIds(orders) |->
        IF id \in DOMAIN firstSeen THEN firstSeen[id] ELSE t]

\* the difference taken over the sum of the prices, not over their mean
priceDiffBps_OverSum(a, b) ==
    LET sum == Abs(a) + Abs(b)
    IN  IF sum <= 0 THEN <<0, 1>> ELSE <<Abs(a - b) * 10000, sum>>

\* the difference of two prices in bps, as the fraction <<num, den>>
priceDiffBps(a, b) ==
    LET sum == Abs(a) + Abs(b)
    IN  IF sum <= 0 THEN <<0, 1>> ELSE <<Abs(a - b) * 2 * 10000, sum>>

\* currentBySide.get(side): the first cached order of the side
currentBySide(orders, side) ==
    LET S == {i \in 1..Len(orders) : orders[i].side = side}
    IN  IF S = {} THEN NoOrder ELSE orders[Lowest(S)]

\* the two fields of this.config the guard reads
config == [requoteThresholdBps |-> requoteThresholdBps, minOrderAgeMs |-> minOrderAgeMs]

\* isFresh, for an order the guard takes to be fresh once it is old enough
isFresh_Old(cfg, ageMs) == ageMs >= cfg.minOrderAgeMs

isFresh(cfg, ageMs) == ageMs < cfg.minOrderAgeMs

\* isFresh || isWithinThreshold under the config cfg
guardKeeps(cfg, existing, firstSeen, t, quote) ==
    LET ageMs == t - (IF existing.orderId \in DOMAIN firstSeen
                      THEN firstSeen[existing.orderId] ELSE t)
        priceBps == priceDiffBps(existing.price, quote.price)
        isWithinThreshold == priceBps[1] <= cfg.requoteThresholdBps * priceBps[2]
    IN  isFresh(cfg, ageMs) \/ isWithinThreshold

\* does the guard keep the live order `existing` in place of `quote`
keepsExisting(existing, firstSeen, t, quote) ==
    guardKeeps(config, existing, firstSeen, t, quote)

\* quotes.map(...) of applyRequoteGuard under the config cfg
guardQuotes(cfg, orders, firstSeen, t, quotes) ==
    [i \in 1..Len(quotes) |->
        LET quote == quotes[i]
            existing == currentBySide(orders, quote.side)
        IN  IF existing = NoOrder THEN quote
            ELSE IF guardKeeps(cfg, existing, firstSeen, t, quote)
                 THEN [quote EXCEPT !.price = existing.price, !.size = existing.size]
                 ELSE quote]

applyRequoteGuard_PriceOnly(orders, firstSeen, t, quotes) ==
    [i \in 1..Len(quotes) |->
        LET quote == quotes[i]
            existing == currentBySide(orders, quote.side)
        IN  IF existing = NoOrder THEN quote
            ELSE IF keepsExisting(existing, firstSeen, t, quote)
                 THEN [quote EXCEPT !.price = existing.price]
                 ELSE quote]

\* applyRequoteGuard after its refreshOrderAges, which produced firstSeen
applyRequoteGuard(orders, firstSeen, t, quotes) ==
    guardQuotes(config, orders, firstSeen, t, quotes)

\* if (this.isUpdating) return;
executeUpdateGuard_Open(updating) == TRUE

executeUpdateGuard(updating) == ~updating

RemoveAt(seq, j) == SubSeq(seq, 1, j - 1) \o SubSeq(seq, j + 1, Len(seq))

\* an executeUpdate that awaits user.atomic for the first chunk of its actions
NewJob(op, actions) ==
    [keptOrders |-> op.kept, actions |-> actions,
     fairPrice |-> op.fairPrice, base |-> op.base, allowed |-> op.allowed,
     i |-> 0, allOrders |-> <<>>,
     sent |-> << slice(actions, 0) >>, got |-> 0, posted |-> 0]

\* the record of an operation on job
JobOp(name, job, result) ==
    [NoMMOp EXCEPT !.name = name, !.fairPrice = job.fairPrice, !.base = job.base,
                   !.allowed = job.allowed, !.kept = job.keptOrders,
                   !.actions = job.actions, !.sent = job.sent, !.got = job.got,
                   !.posted = job.posted, !.placed = job.allOrders,
                   !.result = result]

TickMs == minOrderAgeMs

\* fair prices handed to the throttled update, 400.0 and 400.2: the bids they
\* give are 2.5 bps apart, the asks 7.5 bps
FairPrices == {4000 * TickUnits, 4002 * TickUnits}

\* what orderbookStream.getBBO() may return during an update
BBOs == {NoBBO, [known |-> TRUE, bestBid |-> 3999 * TickUnits, bestAsk |-> 4001 * TickUnits]}

(***************************************************************************)
(* MarketMaker: the callbacks.                                             *)
(***************************************************************************)
\* the throttle calls executeUpdate(fairPrice): the whole of it when it ends
\* without awaiting the venue, else up to the first await of user.atomic
executeUpdate(fairPrice, bbo) ==
    IF ~executeUpdateGuard(isUpdating)
    THEN /\ mmOp' = [NoMMOp EXCEPT !.name = "dropped"]
         /\ UNCHANGED <<activeOrders, orderFirstSeenMs, isUpdating, jobs>>
    ELSE LET quotingCtx == getQuotingContext(baseSize, fairPrice)
             quotes == getQuotes(quotingCtx, bbo)
             firstSeen == refreshOrderAges(orderFirstSeenMs, activeOrders, now)
             stableQuotes == applyRequoteGuard(activeOrders, firstSeen, now, quotes)
             plan == updateQuotes(activeOrders, stableQuotes)
             replaced == {i \in 1..Len(quotes) :
                            LET existing == currentBySide(activeOrders, quotes[i].side)
                            IN  /\ existing # NoOrder
                                /\ keepsExisting(existing, firstSeen, now, quotes[i])}
             op == [NoMMOp EXCEPT !.fairPrice = fairPrice, !.base = baseSize,
                                  !.allowed = quotingCtx.allowedSides,
                                  !.live = activeOrders, !.proposed = quotes,
                                  !.replaced = replaced,
                                  !.targets = stableQuotes,
                                  !.kept = plan.keptOrders,
                                  !.cancels = plan.ordersToCancel,
                                  !.places = plan.quotesToPlace,
                                  !.actions = plan.actions]
         IN  IF stableQuotes = <<>>
             THEN /\ orderFirstSeenMs' = firstSeen
                  /\ mmOp' = [op EXCEPT !.name = "noQuotes", !.kept = <<>>,
                                        !.cancels = <<>>, !.actions = <<>>]
                  /\ isUpdating' = FALSE
                  /\ UNCHANGED <<activeOrders, jobs>>
             ELSE IF plan.actions = <<>>
                  THEN /\ activeOrders' = activeOrders
                       /\ orderFirstSeenMs' = refreshOrderAges(firstSeen, activeOrders, now)
                       /\ mmOp' = [op EXCEPT !.name = "noop", !.result = activeOrders]
                       /\ isUpdating' = FALSE
                       /\ UNCHANGED jobs
                  ELSE /\ Len(jobs) < MaxJobs
                       /\ isUpdating' = TRUE
                       /\ orderFirstSeenMs' = firstSeen
                       /\ jobs' = Append(jobs, NewJob(op, plan.actions))
                       /\ mmOp' = [op EXCEPT !.name = "submitted",
                                             !.sent = << slice(plan.actions, 0) >>]
                       /\ UNCHANGED activeOrders

Trigger(fairPrice, bbo) ==
    /\ executeUpdate(fairPrice, bbo)
    /\ UNCHANGED <<fetchInfoPromise, baseSize, syncWaiting, venueOrders, nextOrderId, now>>
    /\ UNCHANGED <<obVars, quVars, guVars, fpVars, wuVars, psVars, acVars, fiVars, foVars, reVars, shVars, simVars, sdVars, stVars, pfVars>>

PlacesPosted(chunk, flags) ==
    Cardinality({k \in 1..Len(chunk) : chunk[k].kind = "place" /\ flags[k]})

\* user.atomic of job j returns: the rest of the loop body of executeAtomic,
\* then either the next chunk is submitted or the caller continues
AtomicOk(j) ==
    /\ j \in 1..Len(jobs)
    /\ LET job == jobs[j]
           chunk == slice(job.actions, job.i)
       IN  \E flags \in [1..Len(chunk) -> BOOLEAN] :
             /\ \A k \in 1..Len(chunk) : chunk[k].kind = "cancel" => flags[k]
             /\ nextOrderId + PlacesPosted(chunk, flags) <= MaxOrders + 1
             /\ LET v == VenueAtomic(venueOrders, nextOrderId, chunk, flags, 1)
                    placed == extractPlacedOrders(v.results, chunk)
                    job1 == [job EXCEPT !.allOrders = @ \o placed,
                                        !.i = @ + MAX_ATOMIC_ACTIONS,
                                        !.got = @ + 1,
                                        !.posted = @ + PlacesPosted(chunk, flags)]
                    newOrders == job.keptOrders \o job1.allOrders
                IN  /\ venueOrders' = v.orders
                    /\ nextOrderId' = v.nextId
                    /\ IF job1.i < Len(job.actions)
                       THEN /\ jobs' = [jobs EXCEPT ![j] =
                                   [job1 EXCEPT !.sent = Append(@, slice(job.actions, job1.i))]]
                            /\ mmOp' = JobOp("chunk", jobs'[j], <<>>)
                            /\ UNCHANGED <<activeOrders, orderFirstSeenMs, isUpdating>>
                       ELSE /\ jobs' = RemoveAt(jobs, j)
                            /\ activeOrders' = newOrders
                            /\ orderFirstSeenMs' =
                                  refreshOrderAges(orderFirstSeenMs, newOrders, now)
                            /\ isUpdating' = FALSE
                            /\ mmOp' = JobOp("updated", job1, newOrders)
    /\ UNCHANGED <<fetchInfoPromise, baseSize, syncWaiting, now>>
    /\ UNCHANGED <<obVars, quVars, guVars, fpVars, wuVars, psVars, acVars, fiVars, foVars, reVars, shVars, simVars, sdVars, stVars, pfVars>>

\* a catch block that leaves the cache as it was
catchUpdateError_Keep(orders) == orders

\* catch (err) of executeUpdate: this.activeOrders = []
catchUpdateError(orders) == <<>>

\* user.atomic of job j throws: executeAtomic and updateQuotes throw,
\* executeUpdate catches: activeOrders = [], then finally
AtomicFail(j) ==
    /\ j \in 1..Len(jobs)
    /\ jobs' = RemoveAt(jobs, j)
    /\ activeOrders' = catchUpdateError(activeOrders)
    /\ isUpdating' = FALSE
    /\ mmOp' = JobOp("failed", jobs[j], <<>>)
    /\ UNCHANGED <<orderFirstSeenMs, fetchInfoPromise, baseSize, syncWaiting,
                   venueOrders, nextOrderId, now>>
    /\ UNCHANGED <<obVars, quVars, guVars, fpVars, wuVars, psVars, acVars, fiVars, foVars, reVars, shVars, simVars, sdVars, stVars, pfVars>>

\* the order-sync interval fires: syncOrders up to its await (safeFetchInfo)
SyncOrders ==
    /\ ~syncWaiting
    /\ syncWaiting' = TRUE
    /\ fetchInfoPromise' = TRUE
    /\ mmOp' = [NoMMOp EXCEPT !.name = "other"]
    /\ UNCHANGED <<activeOrders, orderFirstSeenMs, isUpdating, baseSize, jobs,
                   venueOrders, nextOrderId, now>>
    /\ UNCHANGED <<obVars, quVars, guVars, fpVars, wuVars, psVars, acVars, fiVars, foVars, reVars, shVars, simVars, sdVars, stVars, pfVars>>

\* user.fetchInfo() resolves: finally() clears the slot, then syncOrders' callback
FetchInfoOk ==
    /\ fetchInfoPromise
    /\ fetchInfoPromise' = FALSE
    /\ syncWaiting' = FALSE
    /\ IF syncWaiting
       THEN /\ activeOrders' = mapApiOrdersToCached(ApiOrders(venueOrders))
            /\ orderFirstSeenMs' = refreshOrderAges(orderFirstSeenMs, activeOrders', now)
            /\ mmOp' = [NoMMOp EXCEPT !.name = "synced", !.live = activeOrders,
                                      !.result = activeOrders']
       ELSE /\ mmOp' = [NoMMOp EXCEPT !.name = "other"]
            /\ UNCHANGED <<activeOrders, orderFirstSeenMs>>
    /\ UNCHANGED <<isUpdating, baseSize, jobs, venueOrders, nextOrderId, now>>
    /\ UNCHANGED <<obVars, quVars, guVars, fpVars, wuVars, psVars, acVars, fiVars, foVars, reVars, shVars, simVars, sdVars, stVars, pfVars>>

\* user.fetchInfo() rejects: finally() clears the slot, syncOrders logs
FetchInfoFail ==
    /\ fetchInfoPromise
    /\ fetchInfoPromise' = FALSE
    /\ syncWaiting' = FALSE
    /\ mmOp' = [NoMMOp EXCEPT !.name = "other"]
    /\ UNCHANGED <<activeOrders, orderFirstSeenMs, isUpdating, baseSize, jobs,
                   venueOrders, nextOrderId, now>>
    /\ UNCHANGED <<obVars, quVars, guVars, fpVars, wuVars, psVars, acVars, fiVars, foVars, reVars, shVars, simVars, sdVars, stVars, pfVars>>

\* time passes
Tick ==
    /\ now < MaxTicks * TickMs
    /\ now' = now + TickMs
    /\ mmOp' = [NoMMOp EXCEPT !.name = "other"]
    /\ UNCHANGED <<activeOrders, orderFirstSeenMs, isUpdating, fetchInfoPromise, baseSize,
                   jobs, syncWaiting, venueOrders, nextOrderId>>
    /\ UNCHANGED <<obVars, quVars, guVars, fpVars, wuVars, psVars, acVars, fiVars, foVars, reVars, shVars, simVars, sdVars, stVars, pfVars>>

\* positions of the account when the bot starts: flat; long 25.5 lots and
\* short 24 lots, both worth more than closeThresholdUsd at the fair prices
StartPositions == {0, 25 * LotUnits + 1, -24 * LotUnits}

\* resting orders of the account when the bot starts: none, or the bid and
\* the ask a previous run quoted around 400.0
StartOrders ==
    {{},
     {[orderId |-> 1, side |-> "bid", price |-> 3996 * TickUnits, size |-> 25 * LotUnits],
      [orderId |-> 2, side |-> "ask", price |-> 4004 * TickUnits, size |-> 25 * LotUnits]}}

\* run() has awaited initialize() and syncInitialOrders(), and the position
\* tracker its first syncFromServer
InitMM ==
    /\ baseSize \in StartPositions
    /\ venueOrders \in StartOrders
    /\ nextOrderId = Cardinality(venueOrders) + 1
    /\ activeOrders = mapApiOrdersToCached(ApiOrders(venueOrders))
    /\ orderFirstSeenMs = refreshOrderAges([id \in {} |-> 0], activeOrders, 0)
    /\ now = 0
    /\ isUpdating = FALSE
    /\ fetchInfoPromise = FALSE
    /\ jobs = <<>>
    /\ syncWaiting = FALSE
    /\ mmOp = NoMMOp
    /\ InitOBVars
    /\ InitQuVars
    /\ InitGuVars
    /\ InitFpVars
    /\ InitWuVars
    /\ InitPsVars
    /\ InitAcVars
    /\ InitFiVars
    /\ InitFoVars
    /\ InitReVars
    /\ InitShVars
    /\ InitSimVars
    /\ InitSdVars
    /\ InitStVars
    /\ InitPfVars

NextMM ==
    \/ \E fairPrice \in FairPrices, bbo \in BBOs : Trigger(fairPrice, bbo)
    \/ \E j \in 1..MaxJobs : AtomicOk(j)
    \/ \E j \in 1..MaxJobs : AtomicFail(j)
    \/ SyncOrders
    \/ FetchInfoOk
    \/ FetchInfoFail
    \/ Tick

SpecMM == InitMM /\ [][NextMM]_vars

(***************************************************************************)
(* SpecQuoter: one call of getQuotingContext and getQuotes per step.       *)
(***************************************************************************)
\* fair prices: below one tick, unaligned, at and around 400.0, and so
\* large that 100 USD buy less than one lot
QuoterFairPrices == (1..12) \cup {3999 * TickUnits + 1, 4000 * TickUnits,
                                  4002 * TickUnits, 20000 * TickUnits, 100001 * TickUnits}

\* positions: flat, below one lot, unaligned, and some lots, long and short;
\* 2.5 lots at 400.0 are worth exactly closeThresholdUsd
QuoterBaseSizes == {-25 * LotUnits, -(5 * LotUnits) \div 2, -LotUnits - 1, -1, 0,
                    1, LotUnits + 1, (5 * LotUnits) \div 2, 25 * LotUnits}

QuoterBBOs == {NoBBO,
               [known |-> TRUE, bestBid |-> 1, bestAsk |-> 3],
               [known |-> TRUE, bestBid |-> 3999 * TickUnits, bestAsk |-> 4001 * TickUnits],
               [known |-> TRUE, bestBid |-> 4010 * TickUnits + 1, bestAsk |-> 4011 * TickUnits]}

Quote(fairPrice, base, bbo) ==
    /\ LET ctx == getQuotingContext(base, fairPrice)
       IN  /\ qIn' = [fairPrice |-> fairPrice, base |-> base, bbo |-> bbo,
                      allowed |-> ctx.allowedSides,
                      isCloseMode |-> ctx.positionState.isCloseMode,
                      alignedSize |-> quoteSize(ctx)]
           /\ qOut' = getQuotes(ctx, bbo)
    /\ UNCHANGED <<obVars, mmVars, guVars, fpVars, wuVars, psVars, acVars, fiVars, foVars, reVars, shVars, simVars, sdVars, stVars, pfVars>>

InitQuoter ==
    /\ InitQuVars
    /\ InitGuVars
    /\ InitFpVars
    /\ InitWuVars
    /\ InitPsVars
    /\ InitAcVars
    /\ InitFiVars
    /\ InitFoVars
    /\ InitReVars
    /\ InitShVars
    /\ InitSimVars
    /\ InitSdVars
    /\ InitStVars
    /\ InitPfVars
    /\ InitOBVars
    /\ InitMMVars

NextQuoter ==
    \E fairPrice \in QuoterFairPrices, base \in QuoterBaseSizes, bbo \in QuoterBBOs :
        Quote(fairPrice, base, bbo)

SpecQuoter == InitQuoter /\ [][NextQuoter]_vars

(***************************************************************************)
(* SpecGuard: applyRequoteGuard on a cache, a map of first-seen times and  *)
(* a clock drawn from bounded sets, under a config and under a lower one.  *)
(***************************************************************************)
\* cached orders: a bid at 1999.7, an ask at 2010.0, a second bid at 2000.4
GuardOrder(id) ==
    IF id = 1 THEN [orderId |-> 1, side |-> "bid", price |-> 19997 * TickUnits,
                    size |-> 25 * LotUnits]
    ELSE IF id = 2 THEN [orderId |-> 2, side |-> "ask", price |-> 20100 * TickUnits,
                         size |-> 25 * LotUnits]
    ELSE [orderId |-> 3, side |-> "bid", price |-> 20004 * TickUnits,
          size |-> 24 * LotUnits]

GuardCaches ==
    {<<>>, <<GuardOrder(1)>>, <<GuardOrder(2)>>, <<GuardOrder(1), GuardOrder(2)>>,
     <<GuardOrder(1), GuardOrder(3)>>, <<GuardOrder(2), GuardOrder(3), GuardOrder(1)>>}

\* first-seen maps: of the cached orders, of none, or of every order
GuardFirstSeen(orders) ==
    UNION {[S -> {0, minOrderAgeMs}] : S \in {OrderIds(orders), {}, {1, 2, 3}}}

GuardTimes == {minOrderAgeMs, 2 * minOrderAgeMs - 1, 2 * minOrderAgeMs}

\* proposed quotes: at most one per side; the bids are 0, 3 and 3.5 bps from
\* the cached bid at 1999.7
GuardBids ==
    {[side |-> "bid", price |-> p * TickUnits, size |-> 24 * LotUnits] :
        p \in {19997, 20003, 20004}}

GuardAsks ==
    {[side |-> "ask", price |-> p * TickUnits, size |-> 24 * LotUnits] :
        p \in {20100, 20110}}

GuardQuotes ==
    {<<>>} \cup {<<b>> : b \in GuardBids} \cup {<<a>> : a \in GuardAsks}
           \cup {<<b, a>> : b \in GuardBids, a \in GuardAsks}

GuardConfigs ==
    {[requoteThresholdBps |-> th, minOrderAgeMs |-> age] :
        th \in {0, requoteThresholdBps, requoteThresholdBps + 1},
        age \in {0, minOrderAgeMs, 2 * minOrderAgeMs}}

\* indices of the quotes for which the guard keeps the live order
guardKept(cfg, orders, firstSeen, t, quotes) ==
    {i \in 1..Len(quotes) :
        LET existing == currentBySide(orders, quotes[i].side)
        IN  existing # NoOrder /\ guardKeeps(cfg, existing, firstSeen, t, quotes[i])}

\* applyRequoteGuard(quotes) with this.config = cfg; the same call is also
\* evaluated with the config lower.  One call per behaviour: the guard reads the
\* cache, the ages and the clock, which InitGuard enumerates.
RequoteGuard(quotes, cfg, lower) ==
    /\ gIn = NoGuardCall
    /\ lower.requoteThresholdBps <= cfg.requoteThresholdBps
    /\ lower.minOrderAgeMs <= cfg.minOrderAgeMs
    /\ LET firstSeen == refreshOrderAges(orderFirstSeenMs, activeOrders, now)
       IN  /\ orderFirstSeenMs' = firstSeen
           /\ gIn' = [quotes |-> quotes, orders |-> activeOrders, firstSeen |-> firstSeen,
                      now |-> now, config |-> cfg, lower |-> lower]
           /\ gOut' = [quotes |-> guardQuotes(cfg, activeOrders, firstSeen, now, quotes),
                       kept |-> guardKept(cfg, activeOrders, firstSeen, now, quotes),
                       lowerQuotes |-> guardQuotes(lower, activeOrders, firstSeen, now, quotes),
                       lowerKept |-> guardKept(lower, activeOrders, firstSeen, now, quotes)]
    /\ UNCHANGED <<activeOrders, isUpdating, fetchInfoPromise, baseSize, jobs,
                   syncWaiting, venueOrders, nextOrderId, now, mmOp>>
    /\ UNCHANGED <<obVars, quVars, fpVars, wuVars, psVars, acVars, fiVars, foVars, reVars, shVars, simVars, sdVars, stVars, pfVars>>

InitGuard ==
    /\ activeOrders \in GuardCaches
    /\ orderFirstSeenMs \in GuardFirstSeen(activeOrders)
    /\ now \in GuardTimes
    /\ isUpdating = FALSE
    /\ fetchInfoPromise = FALSE
    /\ baseSize = 0
    /\ jobs = <<>>
    /\ syncWaiting = FALSE
    /\ venueOrders = Range(activeOrders)
    /\ nextOrderId = 4
    /\ mmOp = NoMMOp
    /\ InitOBVars
    /\ InitQuVars
    /\ InitGuVars
    /\ InitFpVars
    /\ InitWuVars
    /\ InitPsVars
    /\ InitAcVars
    /\ InitFiVars
    /\ InitFoVars
    /\ InitReVars
    /\ InitShVars
    /\ InitSimVars
    /\ InitSdVars
    /\ InitStVars
    /\ InitPfVars

NextGuard ==
    \E quotes \in GuardQuotes, cfg \in GuardConfigs, lower \in GuardConfigs :
        RequoteGuard(quotes, cfg, lower)

SpecGuard == InitGuard /\ [][NextGuard]_vars

(***************************************************************************)
(* Claims about the quoting loop and the order planner.                    *)
(***************************************************************************)
StartedOps == {"noQuotes", "noop", "submitted"}

FinishedOps == {"noQuotes", "noop", "updated", "failed"}

\* C4: executeUpdate is never re-entered.  At most one invocation is past the
\* isUpdating guard, and isUpdating is true exactly while one is; after an
\* invocation that passed the guard has finished (returned early, succeeded
\* or thrown) isUpdating is false; while an update is in flight no trigger
\* passes the guard, and a trigger that is dropped changes nothing: it reads
\* no position, refreshes no order age, and submits nothing.
C4_NoReentry ==
    /\ [](/\ Len(jobs) <= 1
          /\ isUpdating <=> Len(jobs) = 1
          /\ mmOp.name \in FinishedOps => ~isUpdating)
    /\ [][/\ isUpdating => mmOp'.name \notin StartedOps
          /\ mmOp'.name = "dropped" =>
                /\ isUpdating
                /\ UNCHANGED <<activeOrders, orderFirstSeenMs, isUpdating, baseSize,
                               jobs, venueOrders, nextOrderId>>]_vars

\* a trigger has just been dropped while an update awaits its atomic submission
C4_Witness ==
    /\ mmOp.name = "dropped"
    /\ isUpdating
    /\ Len(jobs) = 1

TupleOf(x) == <<x.side, x.price, x.size>>

Tuples(seq) == {TupleOf(seq[i]) : i \in 1..Len(seq)}

PlanOps == {"noop", "submitted"}

\* the live order that target quote q keeps: the first one with q's tuple
FirstMatch(live, q) ==
    LET S == {i \in 1..Len(live) : TupleOf(live[i]) = TupleOf(q)}
    IN  live[CHOOSE i \in S : \A k \in S : i <= k]

PlacesOf(actions) == SelectSeq(actions, IsPlace)

\* what a reconcile returns on success, for C5 as stated and as amended
ReturnsKeptAndPlaced ==
    /\ mmOp.name \in PlanOps =>
          \A i \in 1..Len(mmOp.kept) :
                \E k \in 1..Len(mmOp.live) : mmOp.kept[i] = mmOp.live[k]
    /\ mmOp.name = "noop" =>
          /\ activeOrders = mmOp.live
          /\ Range(mmOp.live) = Range(mmOp.kept)
    /\ mmOp.name = "updated" =>
          /\ mmOp.result = mmOp.kept \o mmOp.placed
          /\ activeOrders = mmOp.result

GuardKeeps ==
    mmOp.name \in PlanOps =>
        \A i \in mmOp.replaced :
            LET existing == currentBySide(mmOp.live, mmOp.proposed[i].side)
            IN  /\ TupleOf(mmOp.targets[i]) = TupleOf(existing)
                /\ existing \in Range(mmOp.kept)
                /\ existing \notin Range(mmOp.cancels)
                /\ mmOp.targets[i] \notin Range(mmOp.places)

JobRecords ==
    {[actions |-> jobs[j].actions, sent |-> jobs[j].sent, got |-> jobs[j].got,
      done |-> FALSE] : j \in 1..Len(jobs)}
    \cup (IF mmOp.name \in {"updated", "failed"}
          THEN {[actions |-> mmOp.actions, sent |-> mmOp.sent, got |-> mmOp.got,
                 done |-> mmOp.name = "updated"]}
          ELSE {})

Cancels(actions) == Cardinality({i \in 1..Len(actions) : actions[i].kind = "cancel"})

\* C7: the actions of a reconcile are all its cancels, then all its places;
\* chunk k is the actions 4(k-1)+1 .. 4k, so a chunk has at most 4 actions
\* and cancels are only in the first ceil(|cancels|/4) chunks; the chunks
\* submitted are one more than the results received, until the last result;
\* a reconcile whose chunk failed has submitted nothing after it and is over.
C7_ChunksInOrder ==
    /\ \A r \in JobRecords :
          LET n == Len(r.actions)
              c == Cancels(r.actions)
              chunks == CeilDiv(n, MAX_ATOMIC_ACTIONS)
          IN  /\ \A i \in 1..n : (r.actions[i].kind = "cancel") <=> (i <= c)
              /\ Len(r.sent) >= 1
              /\ Len(r.sent) <= chunks
              /\ \A k \in 1..Len(r.sent) :
                    /\ r.sent[k] = SubSeq(r.actions, MAX_ATOMIC_ACTIONS * (k - 1) + 1,
                                          Min(MAX_ATOMIC_ACTIONS * k, n))
                    /\ Len(r.sent[k]) \in 1..MAX_ATOMIC_ACTIONS
                    /\ k > CeilDiv(c, MAX_ATOMIC_ACTIONS) =>
                          \A i \in 1..Len(r.sent[k]) : r.sent[k][i].kind = "place"
              /\ IF r.done THEN r.got = chunks /\ Len(r.sent) = chunks
                           ELSE Len(r.sent) = r.got + 1
    /\ mmOp.name = "failed" => jobs = <<>>

\* the second chunk of a reconcile was submitted after the result of the first
C7_Witness ==
    /\ mmOp.name = "chunk"
    /\ Len(jobs) = 1
    /\ Len(jobs[1].actions) > MAX_ATOMIC_ACTIONS
    /\ Len(jobs[1].sent) = 2
    /\ jobs[1].got = 1

DistinctNewIds ==
    /\ Cardinality(OrderIds(mmOp.placed)) = Len(mmOp.placed)
    /\ OrderIds(mmOp.placed) \cap OrderIds(mmOp.kept) = {}

\* C8 as stated: for an atomic batch that succeeded and contained P place
\* actions, reconcile returns the kept orders plus exactly P new entries with
\* pairwise distinct order ids, none the id of a kept order.
C8_PlacedEqualsPlaces ==
    mmOp.name = "updated" =>
        /\ mmOp.result = mmOp.kept \o mmOp.placed
        /\ Len(mmOp.placed) = Len(PlacesOf(mmOp.actions))
        /\ DistinctNewIds

\* C8 amended: for an atomic batch that succeeded, reconcile returns the kept
\* orders plus exactly one new entry for each place action whose result
\* carries a posted order id: P entries when all P place actions were posted,
\* fewer when the venue posted fewer; the new order ids are pairwise distinct
\* and none is the id of a kept order.
C8_PlacedEqualsPosted ==
    mmOp.name = "updated" =>
        /\ mmOp.result = mmOp.kept \o mmOp.placed
        /\ Len(mmOp.placed) = mmOp.posted
        /\ mmOp.posted <= Len(PlacesOf(mmOp.actions))
        /\ DistinctNewIds

\* a batch of two place actions, both posted, returned two new orders
C8_Witness ==
    /\ mmOp.name = "updated"
    /\ Len(PlacesOf(mmOp.actions)) = 2
    /\ mmOp.posted = 2
    /\ Len(mmOp.placed) = 2
    /\ activeOrders = mmOp.kept \o mmOp.placed

\* C9: right after an executeUpdate whose reconcile succeeded, the cached
\* orders are at most as many as the allowed sides of the quoting context of
\* that update: two sides in normal mode, one in close mode.
C9_CachedWithinAllowedSides ==
    mmOp.name \in {"noop", "updated"} =>
        /\ Len(activeOrders) <= Len(mmOp.allowed)
        /\ Len(mmOp.allowed) =
              IF Abs(mmOp.base * mmOp.fairPrice) >= closeThresholdUsd * SizeScale * PriceScale
              THEN 1 ELSE 2

\* an update in close mode cancelled an order and left one cached order
C9_Witness ==
    /\ mmOp.name = "updated"
    /\ Len(mmOp.allowed) = 1
    /\ \E i \in 1..Len(mmOp.actions) : mmOp.actions[i].kind = "cancel"
    /\ Len(activeOrders) = 1

(***************************************************************************)
(* Claims about the quoter.                                                *)
(***************************************************************************)
\* the size the quoter aligns: |base| in close mode, orderSizeUsd / fair else,
\* in lots, rounded down
AlignedLots ==
    IF qIn.isCloseMode
    THEN Abs(qIn.base) \div LotUnits
    ELSE (orderSizeUsd * PriceScale * SizeScale) \div (qIn.fairPrice * LotUnits)

\* C10: every quote the quoter emits has a price that is a whole number of
\* ticks and a size that is a whole number of lots, both positive; it emits
\* at most one quote per side, and none when the aligned size is 0.
C10_QuotesAligned ==
    qIn # NoQuoterCall =>
        /\ \A i \in 1..Len(qOut) :
              /\ qOut[i].price % TickUnits = 0
              /\ qOut[i].price > 0
              /\ qOut[i].size % LotUnits = 0
              /\ qOut[i].size > 0
        /\ \A i, k \in 1..Len(qOut) : qOut[i].side = qOut[k].side => i = k
        /\ AlignedLots = 0 => qOut = <<>>

\* two quotes from a fair price that is not a whole number of ticks
C10_Witness ==
    /\ Len(qOut) = 2
    /\ qIn.fairPrice % TickUnits # 0
    /\ qIn.fairPrice > 100 * TickUnits

\* the reference computation of the quotes, from the inputs of the call
FloorTick(num, den) == (num \div (den * TickUnits)) * TickUnits

CeilTick(num, den) == (-((-num) \div (den * TickUnits))) * TickUnits

RefCloseMode ==
    Abs(qIn.base * qIn.fairPrice) >= closeThresholdUsd * SizeScale * PriceScale

RefAllowed ==
    IF RefCloseMode THEN (IF qIn.base > 0 THEN {"ask"} ELSE {"bid"})
                    ELSE {"bid", "ask"}

RefBps == IF RefCloseMode THEN takeProfitBps ELSE spreadBps

RefBidRaw == FloorTick(qIn.fairPrice * 10000 - qIn.fairPrice * RefBps, 10000)

RefAskRaw == CeilTick(qIn.fairPrice * 10000 + qIn.fairPrice * RefBps, 10000)

RefBid ==
    IF qIn.bbo.known /\ RefBidRaw >= qIn.bbo.bestAsk
    THEN FloorTick(qIn.bbo.bestAsk - TickUnits, 1)
    ELSE RefBidRaw

RefAsk ==
    IF qIn.bbo.known /\ RefAskRaw <= qIn.bbo.bestBid
    THEN CeilTick(qIn.bbo.bestBid + TickUnits, 1)
    ELSE RefAskRaw

RefSize ==
    IF RefCloseMode
    THEN (Abs(qIn.base) \div LotUnits) * LotUnits
    ELSE ((orderSizeUsd * PriceScale * SizeScale) \div (qIn.fairPrice * LotUnits)) * LotUnits

RefQuotes ==
    IF RefSize <= 0 THEN <<>>
    ELSE (IF "bid" \in RefAllowed /\ RefBid > 0
          THEN << [side |-> "bid", price |-> RefBid, size |-> RefSize] >> ELSE <<>>)
         \o
         (IF "ask" \in RefAllowed /\ RefAsk > 0
          THEN << [side |-> "ask", price |-> RefAsk, size |-> RefSize] >> ELSE <<>>)

\* C11: with a known BBO every emitted bid quote is priced strictly below
\* the best ask and every emitted ask quote strictly above the best bid.
C11_NoCross ==
    (qIn # NoQuoterCall /\ qIn.bbo.known) =>
        \A i \in 1..Len(qOut) :
            /\ qOut[i].side = "bid" => qOut[i].price < qIn.bbo.bestAsk
            /\ qOut[i].side = "ask" => qOut[i].price > qIn.bbo.bestBid

\* a bid whose unclamped price is at or above the best ask is emitted
C11_Witness ==
    /\ qIn # NoQuoterCall
    /\ qIn.bbo.known
    /\ RefBidRaw >= qIn.bbo.bestAsk
    /\ \E i \in 1..Len(qOut) : qOut[i].side = "bid"

\* C12: the quotes of the quoter are those of the reference computation:
\* bid = floor_tick(fair - fair*bps/10000), ask = ceil_tick(fair + fair*bps/10000),
\* bps = takeProfitBps in close mode and spreadBps otherwise, size =
\* floor_lot(|base|) in close mode and floor_lot(orderSizeUsd / fair) otherwise,
\* a bid at or above the best ask becomes floor_tick(best ask - tick) and is
\* dropped when that is not positive.
C12_QuotesEqualReference ==
    qIn # NoQuoterCall => qOut = RefQuotes

\* fair 400.0, flat, spread 10 bps, 100 USD: bid 399.6 and ask 400.4 of 0.25
C12_Witness ==
    /\ qIn # NoQuoterCall
    /\ qIn.fairPrice = 4000 * TickUnits
    /\ qIn.base = 0
    /\ qOut = << [side |-> "bid", price |-> 3996 * TickUnits, size |-> 25 * LotUnits],
                 [side |-> "ask", price |-> 4004 * TickUnits, size |-> 25 * LotUnits] >>

\* C13: close mode holds exactly when |base * fair| >= closeThresholdUsd;
\* the allowed sides are ask only for a long position in close mode, bid only
\* for a short one, both otherwise; no quote is on a side that is not allowed.
C13_CloseModeSides ==
    qIn # NoQuoterCall =>
        /\ qIn.isCloseMode <=> RefCloseMode
        /\ Range(qIn.allowed) = RefAllowed
        /\ \A i \in 1..Len(qOut) : qOut[i].side \in RefAllowed
        /\ (RefCloseMode /\ qIn.base > 0) => \A i \in 1..Len(qOut) : qOut[i].side # "bid"
        /\ (RefCloseMode /\ qIn.base < 0) => \A i \in 1..Len(qOut) : qOut[i].side # "ask"

\* a long position worth exactly the threshold yields one ask quote
C13_Witness ==
    /\ qIn # NoQuoterCall
    /\ qIn.base > 0
    /\ Abs(qIn.base * qIn.fairPrice) = closeThresholdUsd * SizeScale * PriceScale
    /\ Len(qOut) = 1
    /\ qOut[1].side = "ask"

(***************************************************************************)
(* Claims about the re-quote guard.                                        *)
(***************************************************************************)
\* the live order the guard compares the i-th proposed quote with: the first
\* cached order of the quote's side, NoOrder if there is none
LiveOrderFor(i) ==
    LET L == {k \in 1..Len(gIn.orders) : gIn.orders[k].side = gIn.quotes[i].side}
    IN  IF L = {} THEN NoOrder
        ELSE gIn.orders[CHOOSE k \in L : \A m \in L : k <= m]

\* age_ms < min_order_age_ms or diff_bps <= requote_threshold_bps, for the
\* i-th proposed quote and its live order, under the config cfg
RefKeeps(cfg, i) ==
    LET e == LiveOrderFor(i)
        a == e.price
        b == gIn.quotes[i].price
        ageMs == gIn.now - gIn.firstSeen[e.orderId]
    IN  \/ ageMs < cfg.minOrderAgeMs
        \/ Abs(a - b) * 2 * 10000 <= cfg.requoteThresholdBps * (Abs(a) + Abs(b))

\* C14: a proposed quote with a live order on its side gets the live order's
\* price and size exactly when the order is younger than minOrderAgeMs or the
\* prices differ by at most requoteThresholdBps; otherwise, and when the side
\* has no live order, the quote is returned as proposed.  The guard changes
\* neither the number of the quotes nor their sides.
C14_GuardKeepsExactly ==
    gIn # NoGuardCall =>
        /\ Len(gOut.quotes) = Len(gIn.quotes)
        /\ \A i \in 1..Len(gIn.quotes) :
              /\ gOut.quotes[i].side = gIn.quotes[i].side
              /\ IF LiveOrderFor(i) # NoOrder /\ RefKeeps(gIn.config, i)
                 THEN /\ gOut.quotes[i].price = LiveOrderFor(i).price
                      /\ gOut.quotes[i].size = LiveOrderFor(i).size
                 ELSE gOut.quotes[i] = gIn.quotes[i]

\* an old order whose price is exactly requoteThresholdBps from the proposed
\* one is kept, and an old order farther away is replaced in the same call
C14_Witness ==
    /\ gIn # NoGuardCall
    /\ gIn.config = config
    /\ Len(gIn.quotes) = 2
    /\ LiveOrderFor(1) # NoOrder
    /\ LiveOrderFor(2) # NoOrder
    /\ gIn.now - gIn.firstSeen[LiveOrderFor(1).orderId] >= minOrderAgeMs
    /\ gIn.now - gIn.firstSeen[LiveOrderFor(2).orderId] >= minOrderAgeMs
    /\ gIn.quotes[1].price = 20003 * TickUnits
    /\ gOut.quotes[1].price = 19997 * TickUnits
    /\ gOut.quotes[2] = gIn.quotes[2]
    /\ gIn.quotes[2].price # LiveOrderFor(2).price

\* C15: for the same quotes, cache, first-seen times and clock, every quote
\* that is replaced (not kept) under a config is also replaced under a config
\* whose requoteThresholdBps and minOrderAgeMs are both lower or equal.
C15_GuardMonotone ==
    gIn # NoGuardCall =>
        /\ gOut.lowerKept \subseteq gOut.kept
        /\ \A i \in 1..Len(gIn.quotes) :
              gOut.lowerQuotes[i] # gIn.quotes[i] => gOut.quotes[i] = gOut.lowerQuotes[i]

\* a quote kept under the config is replaced under a strictly lower one
C15_Witness ==
    /\ gIn # NoGuardCall
    /\ gIn.lower.requoteThresholdBps < gIn.config.requoteThresholdBps
    /\ gIn.lower.minOrderAgeMs < gIn.config.minOrderAgeMs
    /\ \E i \in gOut.kept : i \notin gOut.lowerKept
    /\ \E i \in gOut.lowerKept : gOut.lowerQuotes[i] # gIn.quotes[i]

(***************************************************************************)
(* FairPriceCalculator (bots/mm/index.ts).  Mid prices and offsets are     *)
(* integers in units of 1/TickUnits tick; the offsets drawn are even, so   *)
(* that the mean of two of them is a whole number of units.                *)
(***************************************************************************)
fairPriceWindowMs == WindowSeconds * 1000

\* the FairPriceConfig initialize() builds
fairPriceConfig == [windowMs |-> fairPriceWindowMs, minSamples |-> warmupSeconds]

\* the fields of the calculator
Calc == [samples |-> samples, head |-> head, count |-> count, lastSecond |-> lastSecond]

\* addSample that also records when the second has not changed
addSample_SameSecond(st, t, localMid, referenceMid) ==
    LET currentSecond == t \div 1000
    IN  IF currentSecond < st.lastSecond THEN st
        ELSE [samples |-> MapSet(st.samples, st.head,
                                 [offset |-> localMid - referenceMid,
                                  second |-> currentSecond]),
              head |-> (st.head + 1) % MAX_SAMPLES,
              count |-> IF st.count < MAX_SAMPLES THEN st.count + 1 ELSE st.count,
              lastSecond |-> currentSecond]

addSample(st, t, localMid, referenceMid) ==
    LET currentSecond == t \div 1000
    IN  IF currentSecond <= st.lastSecond THEN st
        ELSE [samples |-> MapSet(st.samples, st.head,
                                 [offset |-> localMid - referenceMid,
                                  second |-> currentSecond]),
              head |-> (st.head + 1) % MAX_SAMPLES,
              count |-> IF st.count < MAX_SAMPLES THEN st.count + 1 ELSE st.count,
              lastSecond |-> currentSecond]

\* the cutoff rounded up to the next second
cutoffSecond_Ceil(cfg, t) == CeilDiv(t - cfg.windowMs, 1000)

\* Math.floor((Date.now() - windowMs) / 1000)
cutoffSecond(cfg, t) == (t - cfg.windowMs) \div 1000

\* the loop of getValidSamples from index i on
RECURSIVE ValidFrom(_, _, _)
ValidFrom(st, cutoff, i) ==
    IF i >= st.count THEN <<>>
    ELSE (IF i \in DOMAIN st.samples /\ st.samples[i].second > cutoff
          THEN << st.samples[i] >> ELSE <<>>)
         \o ValidFrom(st, cutoff, i + 1)

getValidSamples(cfg, st, t) == ValidFrom(st, cutoffSecond(cfg, t), 0)

\* offsets.sort((a, b) => a - b)
RECURSIVE SortAscending(_)
SortAscending(seq) ==
    IF seq = <<>> THEN <<>>
    ELSE LET k == CHOOSE i \in 1..Len(seq) : \A j \in 1..Len(seq) : seq[i] <= seq[j]
         IN  << seq[k] >> \o SortAscending(RemoveAt(seq, k))

\* for an even count the upper of the two middle values
getMedianOffset_UpperMiddle(cfg, st, t) ==
    LET valid == getValidSamples(cfg, st, t)
        offsets == SortAscending([i \in 1..Len(valid) |-> valid[i].offset])
        mid == Len(offsets) \div 2
    IN  IF Len(valid) < cfg.minSamples THEN Null
        ELSE Number(offsets[mid + 1])

getMedianOffset(cfg, st, t) ==
    LET valid == getValidSamples(cfg, st, t)
        offsets == SortAscending([i \in 1..Len(valid) |-> valid[i].offset])
        mid == Len(offsets) \div 2
    IN  IF Len(valid) < cfg.minSamples THEN Null
        ELSE IF Len(offsets) % 2 = 0
             THEN Number((offsets[mid] + offsets[mid + 1]) \div 2)
             ELSE Number(offsets[mid + 1])

getFairPrice(cfg, st, t, referenceMid) ==
    LET offset == getMedianOffset(cfg, st, t)
    IN  IF offset.isNull THEN Null ELSE Number(referenceMid + offset.value)

getSampleCount(cfg, st, t) == Len(getValidSamples(cfg, st, t))

(***************************************************************************)
(* SpecFair: the calculator under calls of addSample and getFairPrice      *)
(* while the clock advances: it reads x.0 s and x.9 s in turn, so that a   *)
(* timer of updateThrottleMs set at x.9 s is due in the next second.       *)
(***************************************************************************)
NextClock(t) ==
    IF t % 1000 = 0 THEN t + (1000 - updateThrottleMs) ELSE t + updateThrottleMs

\* reference mids and local mids of the samples: offsets -4, 0 and 6
FairRefs == {4000 * TickUnits}

FairLocals == {4000 * TickUnits - 4, 4000 * TickUnits, 4000 * TickUnits + 6}

AddSample(localMid, referenceMid) ==
    /\ LET st == addSample(Calc, now, localMid, referenceMid)
       IN  /\ samples' = st.samples
           /\ head' = st.head
           /\ count' = st.count
           /\ lastSecond' = st.lastSecond
           /\ fpOp' = [name |-> "addSample", now |-> now, ref |-> referenceMid,
                       stored |-> st # Calc, result |-> Null]
           /\ fpPrev' = NoFpOp
    /\ UNCHANGED <<obVars, mmVars, quVars, guVars, wuVars, psVars, acVars, fiVars, foVars, reVars, shVars, simVars, sdVars, stVars, pfVars>>

GetFairPrice(referenceMid) ==
    /\ fpOp' = [name |-> "getFairPrice", now |-> now, ref |-> referenceMid,
                stored |-> FALSE,
                result |-> getFairPrice(fairPriceConfig, Calc, now, referenceMid)]
    /\ fpPrev' = IF fpOp.name = "getFairPrice" THEN fpOp ELSE NoFpOp
    /\ UNCHANGED <<samples, head, count, lastSecond>>
    /\ UNCHANGED <<obVars, mmVars, quVars, guVars, wuVars, psVars, acVars, fiVars, foVars, reVars, shVars, simVars, sdVars, stVars, pfVars>>

\* time passes; a pending timer of the throttle fires when it is due
ClockStep ==
    /\ NextClock(now) <= MaxSeconds * 1000
    /\ thWaiting => NextClock(now) <= thDeadline
    /\ now' = NextClock(now)
    /\ UNCHANGED <<activeOrders, orderFirstSeenMs, isUpdating, fetchInfoPromise, baseSize,
                   jobs, syncWaiting, venueOrders, nextOrderId, mmOp>>
    /\ UNCHANGED <<obVars, quVars, guVars, fpVars, wuVars, psVars, acVars, fiVars, foVars, reVars, shVars, simVars, sdVars, stVars, pfVars>>

InitFair ==
    /\ InitFpVars
    /\ InitWuVars
    /\ InitPsVars
    /\ InitAcVars
    /\ InitFiVars
    /\ InitFoVars
    /\ InitReVars
    /\ InitShVars
    /\ InitSimVars
    /\ InitSdVars
    /\ InitStVars
    /\ InitPfVars
    /\ InitOBVars
    /\ InitMMVars
    /\ InitQuVars
    /\ InitGuVars

NextFair ==
    \/ \E localMid \in FairLocals, referenceMid \in FairRefs :
           AddSample(localMid, referenceMid)
    \/ \E referenceMid \in FairRefs : GetFairPrice(referenceMid)
    \/ ClockStep

SpecFair == InitFair /\ [][NextFair]_vars

(***************************************************************************)
(* Claims about the fair-price calculator.                                 *)
(***************************************************************************)
\* the seconds of the stored samples, oldest first
InsertionOrder(smp, hd, cnt) ==
    IF cnt < MAX_SAMPLES
    THEN [i \in 1..cnt |-> smp[i - 1].second]
    ELSE [i \in 1..MAX_SAMPLES |-> smp[(hd + i - 1) % MAX_SAMPLES].second]

StoredSeconds == InsertionOrder(samples, head, count)

\* C16: addSample stores a sample only when the current second is strictly
\* greater than the second of the last stored sample, so that the stored
\* seconds strictly increase in insertion order (at most one sample per
\* second); the number of stored samples never exceeds the capacity, and a
\* full buffer loses its oldest sample first.
C16_OneSamplePerSecond ==
    /\ [](/\ count <= MAX_SAMPLES
          /\ count = Cardinality(DOMAIN samples)
          /\ \A i, k \in 1..Len(StoredSeconds) :
                i < k => StoredSeconds[i] < StoredSeconds[k])
    /\ [][samples' # samples =>
            /\ \A i \in 1..Len(StoredSeconds) : StoredSeconds[i] < now \div 1000
            /\ InsertionOrder(samples', head', count') =
                  (IF count < MAX_SAMPLES THEN StoredSeconds ELSE Tail(StoredSeconds))
                  \o << now \div 1000 >>]_vars

\* the buffer is full and has wrapped around: slot 0 holds a newer sample
\* than slot 1
C16_Witness ==
    /\ count = MAX_SAMPLES
    /\ head = 1
    /\ samples[0].second > samples[1].second
    /\ fpOp.name = "addSample"
    /\ ~fpOp.stored

\* the stored samples whose second lies inside the window at the last call
InWindow == {i \in DOMAIN samples : samples[i].second > (fpOp.now \div 1000) - WindowSeconds}

Below(v) == Cardinality({i \in InWindow : samples[i].offset < v})

Above(v) == Cardinality({i \in InWindow : samples[i].offset > v})

\* twice the median of the in-window offsets
TwiceMedian ==
    LET n == Cardinality(InWindow)
        V == {samples[i].offset : i \in InWindow}
    IN  IF n % 2 = 1
        THEN 2 * (CHOOSE v \in V : Below(v) <= (n - 1) \div 2 /\ Above(v) <= (n - 1) \div 2)
        ELSE (CHOOSE v \in V : Below(v) <= n \div 2 - 1 /\ Above(v) <= n \div 2)
             + (CHOOSE v \in V : Below(v) <= n \div 2 /\ Above(v) <= n \div 2 - 1)

\* C17: getFairPrice(ref) is non-null exactly when at least minSamples stored
\* samples have their second inside the window, and is then ref plus the
\* median of their offsets (the mean of the two middle values for an even
\* count).
C17_MedianOfWindow ==
    fpOp.name = "getFairPrice" =>
        /\ ~fpOp.result.isNull <=> Cardinality(InWindow) >= warmupSeconds
        /\ ~fpOp.result.isNull => 2 * (fpOp.result.value - fpOp.ref) = TwiceMedian

\* exactly minSamples samples in the window, an even count with two
\* different offsets, while an older sample is stored outside the window
C17_Witness ==
    /\ fpOp.name = "getFairPrice"
    /\ Cardinality(InWindow) = warmupSeconds
    /\ warmupSeconds % 2 = 0 => Cardinality({samples[i].offset : i \in InWindow}) > 1
    /\ Cardinality(DOMAIN samples) > Cardinality(InWindow)
    /\ ~fpOp.result.isNull

\* two calls of getFairPrice with the same ref and no addSample between them
SameRefTwice ==
    /\ fpOp.name = "getFairPrice"
    /\ fpPrev.name = "getFairPrice"
    /\ fpOp.ref = fpPrev.ref

\* C18 as stated: two calls of getFairPrice(ref) with the same ref and no
\* addSample between them return the same value, whatever time passes
\* between them.
C18_SameValueAnyTime ==
    SameRefTwice => fpOp.result = fpPrev.result

\* C18 amended: two calls of getFairPrice(ref) with the same ref and no
\* addSample between them return the same value when both are made within
\* the same wall-clock second.
C18_SameValueSameSecond ==
    (SameRefTwice /\ fpOp.now \div 1000 = fpPrev.now \div 1000) =>
        fpOp.result = fpPrev.result

\* two calls 0.9 s apart in the same second return a fair price,
\* while a stored sample is in the last second of its window
C18_Witness ==
    /\ SameRefTwice
    /\ fpOp.now \div 1000 = fpPrev.now \div 1000
    /\ fpOp.now # fpPrev.now
    /\ ~fpOp.result.isNull
    /\ \E i \in DOMAIN samples : samples[i].second = (fpOp.now \div 1000) - WindowSeconds + 1

(***************************************************************************)
(* MarketMaker: the price handlers and the throttled update.               *)
(* throttle(fn, updateThrottleMs, {leading, trailing}): a call while no     *)
(* timer is pending runs fn at once and starts the timer; a call while the *)
(* timer is pending leaves its argument for the timer, which runs fn with  *)
(* the last argument left, if any.                                         *)
(***************************************************************************)
MidPrice(mid, t) == [known |-> TRUE, mid |-> mid, timestamp |-> t]

\* zoPrice && Math.abs(a.timestamp - b.timestamp) < 1000
pairs(latest, t) == latest.known /\ Abs(t - latest.timestamp) < 1000

\* the calculator after the handler's addSample, if the prices pair
sampled(latest, t, localMid, referenceMid) ==
    IF pairs(latest, t) THEN addSample(Calc, t, localMid, referenceMid) ELSE Calc

\* a fair price from the raw median, which ignores minSamples
handlerFairPrice_Raw(st, t, referenceMid) ==
    LET cfg == [fairPriceConfig EXCEPT !.minSamples = 1]
    IN  getFairPrice(cfg, st, t, referenceMid)

\* this.fairPriceCalc?.getFairPrice(referencePrice.mid)
handlerFairPrice(st, t, referenceMid) == getFairPrice(fairPriceConfig, st, t, referenceMid)

\* the record of a handler
WuOp(name, st, admitted, tsDiff, handed, started, fairPrice) ==
    [name |-> name, feed |-> referenceFeed, admitted |-> admitted,
     tsDiff |-> IF admitted THEN tsDiff ELSE 0,
     handed |-> handed, started |-> started, fairPrice |-> fairPrice,
     inWindow |-> getSampleCount(fairPriceConfig, st, now)]

\* no executeUpdate runs in this step
noInvoke == UNCHANGED <<activeOrders, orderFirstSeenMs, isUpdating, jobs, mmOp>>

\* this.throttledUpdate?.(fairPrice)
throttledUpdate(fairPrice) ==
    IF ~thWaiting
    THEN /\ \E bbo \in BBOs : executeUpdate(fairPrice, bbo)
         /\ thWaiting' = TRUE
         /\ thArgs' = Null
         /\ thDeadline' = now + updateThrottleMs
    ELSE /\ noInvoke
         /\ thArgs' = Number(fairPrice)
         /\ UNCHANGED <<thWaiting, thDeadline>>

\* the reference feed emits a price: handleReferencePrice
HandleReferencePrice(mid) ==
    /\ referenceFeed
    /\ refLatest' = MidPrice(mid, now)
    /\ lastReferencePriceAt' = now
    /\ LET st == sampled(zoLatest, now, zoLatest.mid, mid)
           fairPrice == handlerFairPrice(st, now, mid)
           usable == ~fairPrice.isNull /\ fairPrice.value # 0
           samplesNow == getSampleCount(fairPriceConfig, st, now)
       IN  /\ samples' = st.samples
           /\ head' = st.head
           /\ count' = st.count
           /\ lastSecond' = st.lastSecond
           /\ UNCHANGED <<fpOp, fpPrev>>
           /\ IF ~mmIsRunning
              THEN /\ noInvoke
                   /\ UNCHANGED <<lastLoggedSampleCount, thWaiting, thArgs, thDeadline>>
              ELSE IF ~usable
              THEN /\ lastLoggedSampleCount' = samplesNow
                   /\ noInvoke
                   /\ UNCHANGED <<thWaiting, thArgs, thDeadline>>
              ELSE /\ lastLoggedSampleCount' =
                         IF lastLoggedSampleCount < warmupSeconds
                         THEN warmupSeconds ELSE lastLoggedSampleCount
                   /\ throttledUpdate(fairPrice.value)
           /\ wuOp' = WuOp("handleReferencePrice", st, pairs(zoLatest, now),
                           Abs(now - zoLatest.timestamp), usable /\ mmIsRunning,
                           usable /\ mmIsRunning /\ ~thWaiting, fairPrice.value)
    /\ UNCHANGED <<referenceFeed, zoLatest, hasLoggedZoOnlyReady>>
    /\ UNCHANGED <<fetchInfoPromise, baseSize, syncWaiting, venueOrders, nextOrderId, now>>
    /\ UNCHANGED <<obVars, quVars, guVars, psVars, acVars, fiVars, foVars, reVars, shVars, simVars, sdVars, stVars, pfVars>>

\* the local orderbook emits a price: handleZoPrice
HandleZoPrice(mid) ==
    /\ zoLatest' = MidPrice(mid, now)
    /\ IF ~referenceFeed /\ ~mmIsRunning
       THEN /\ noInvoke
            /\ wuOp' = WuOp("handleZoPrice", Calc, FALSE, 0, FALSE, FALSE, mid)
            /\ UNCHANGED <<hasLoggedZoOnlyReady, thWaiting, thArgs, thDeadline>>
            /\ UNCHANGED <<samples, head, count, lastSecond, fpOp, fpPrev>>
       ELSE IF ~referenceFeed
       THEN /\ hasLoggedZoOnlyReady' = TRUE
            /\ throttledUpdate(mid)
            /\ wuOp' = WuOp("handleZoPrice", Calc, FALSE, 0, TRUE, ~thWaiting, mid)
            /\ UNCHANGED <<samples, head, count, lastSecond, fpOp, fpPrev>>
       ELSE LET st == sampled(refLatest, now, mid, refLatest.mid)
            IN  /\ samples' = st.samples
                /\ head' = st.head
                /\ count' = st.count
                /\ lastSecond' = st.lastSecond
                /\ UNCHANGED <<fpOp, fpPrev>>
                /\ noInvoke
                /\ wuOp' = WuOp("handleZoPrice", st, pairs(refLatest, now),
                                Abs(now - refLatest.timestamp), FALSE, FALSE, 0)
                /\ UNCHANGED <<hasLoggedZoOnlyReady, thWaiting, thArgs, thDeadline>>
    /\ UNCHANGED <<referenceFeed, lastReferencePriceAt, refLatest, lastLoggedSampleCount>>
    /\ UNCHANGED <<fetchInfoPromise, baseSize, syncWaiting, venueOrders, nextOrderId, now>>
    /\ UNCHANGED <<obVars, quVars, guVars, psVars, acVars, fiVars, foVars, reVars, shVars, simVars, sdVars, stVars, pfVars>>

\* the timer of the throttle fires: the trailing call, if an argument was left
ThrottleTimer ==
    /\ thWaiting
    /\ now >= thDeadline \/ NextClock(now) > thDeadline
    /\ thWaiting' = FALSE
    /\ thArgs' = Null
    /\ IF thArgs.isNull
       THEN noInvoke
       ELSE \E bbo \in BBOs : executeUpdate(thArgs.value, bbo)
    /\ wuOp' = WuOp("throttleTimer", Calc, FALSE, 0, FALSE, ~thArgs.isNull, thArgs.value)
    /\ UNCHANGED <<referenceFeed, lastReferencePriceAt, zoLatest, refLatest,
                   lastLoggedSampleCount, hasLoggedZoOnlyReady, thDeadline>>
    /\ UNCHANGED <<fetchInfoPromise, baseSize, syncWaiting, venueOrders, nextOrderId, now>>
    /\ UNCHANGED <<obVars, quVars, guVars, fpVars, psVars, acVars, fiVars, foVars, reVars, shVars, simVars, sdVars, stVars, pfVars>>

(***************************************************************************)
(* SpecWarmup: the price handlers, the throttle and the calculator, with   *)
(* or without a reference feed, against a venue that rejects the atomic    *)
(* submissions.                                                            *)
(***************************************************************************)
\* mids of the reference feed and of the local orderbook
WarmupRefMids == {4000 * TickUnits}

WarmupZoMids == {4000 * TickUnits}

InitWarmup ==
    /\ referenceFeed \in BOOLEAN
    /\ lastReferencePriceAt = 0
    /\ zoLatest = NoMidPrice
    /\ refLatest = NoMidPrice
    /\ lastLoggedSampleCount = -1
    /\ hasLoggedZoOnlyReady = FALSE
    /\ thWaiting = FALSE
    /\ thArgs = Null
    /\ thDeadline = 0
    /\ wuOp = NoWuOp
    /\ InitPsVars
    /\ InitAcVars
    /\ InitFiVars
    /\ InitFoVars
    /\ InitReVars
    /\ InitShVars
    /\ InitSimVars
    /\ InitSdVars
    /\ InitStVars
    /\ InitPfVars
    /\ InitFpVars
    /\ InitOBVars
    /\ InitMMVars
    /\ InitQuVars
    /\ InitGuVars

NextWarmup ==
    \/ \E mid \in WarmupRefMids : HandleReferencePrice(mid)
    \/ \E mid \in WarmupZoMids : HandleZoPrice(mid)
    \/ ThrottleTimer
    \/ ClockStep
    \/ \E j \in 1..MaxJobs : AtomicFail(j)

SpecWarmup == InitWarmup /\ [][NextWarmup]_vars

(***************************************************************************)
(* Warmup gating.                                                          *)
(***************************************************************************)
\* a handler stored a sample only if the two latest prices are less than 1000 ms apart
AdmitsPairedOnly ==
    [][samples' # samples =>
          /\ zoLatest'.known /\ refLatest'.known
          /\ Abs(zoLatest'.timestamp - refLatest'.timestamp) < 1000]_vars

\* C19 as stated: no executeUpdate is started while fewer than min_samples samples are
\* inside the window, and a sample is admitted only when the paired timestamps differ
\* by less than 1000 ms.
C19_NoStartBelowMinSamples ==
    /\ [](wuOp.started => wuOp.inWindow >= warmupSeconds)
    /\ AdmitsPairedOnly

\* C19: while a reference feed is in use, a fair price is handed to the throttled update
\* only when at least min_samples samples are inside the window at that moment, at startup
\* and after samples have aged out, so every update the handler starts at once has them;
\* the trailing call of the throttle starts its update later without looking again, and
\* without a reference feed every local mid is handed over; a sample is admitted only
\* when the paired timestamps differ by less than 1000 ms.
C19_WarmupGating ==
    /\ [](/\ wuOp.feed /\ wuOp.handed => wuOp.inWindow >= warmupSeconds
          /\ wuOp.feed /\ wuOp.started /\ wuOp.name # "throttleTimer"
                => wuOp.inWindow >= warmupSeconds
          /\ ~wuOp.feed /\ wuOp.name = "handleZoPrice" => wuOp.handed)
    /\ AdmitsPairedOnly

\* a reference price came after samples had aged out: the buffer holds min_samples samples
\* or more, fewer are inside the window, and nothing was handed to the throttled update
C19_Witness ==
    /\ wuOp.name = "handleReferencePrice"
    /\ wuOp.feed
    /\ wuOp.admitted
    /\ count >= warmupSeconds
    /\ wuOp.inWindow < warmupSeconds
    /\ ~wuOp.handed
    /\ ~wuOp.started

(***************************************************************************)
(* PositionTracker: startSync, syncLoop, syncFromServer, stopSync and      *)
(* applyFill.  The refresh is an await: its outcome arrives as a step of   *)
(* its own, and fills may be applied while it is in flight.                *)
(***************************************************************************)
\* pos?.perp ? (pos.perp.isLong ? pos.perp.baseSize : -pos.perp.baseSize) : 0
serverSize(pos) ==
    IF pos.perp
    THEN IF pos.isLong THEN pos.baseSize ELSE -pos.baseSize
    ELSE 0

\* a drift test that also fires at a difference of exactly 0.0001
drifted_AtLeast(local, server) == Abs(local - server) * 10000 >= SizeScale

\* Math.abs(this.baseSize - serverSize) > 0.0001
drifted(local, server) == Abs(local - server) * 10000 > SizeScale

\* the while test of syncLoop once a syncFromServer has returned
afterSync ==
    IF isRunning
    THEN /\ syncLoop' = "sleep"
         /\ sleepUntil' = now + positionSyncIntervalMs
    ELSE /\ syncLoop' = "returned"
         /\ UNCHANGED sleepUntil

\* what the position tracker leaves alone
psFrame ==
    /\ UNCHANGED <<activeOrders, orderFirstSeenMs, isUpdating, fetchInfoPromise,
                   jobs, syncWaiting, venueOrders, nextOrderId, now, mmOp>>
    /\ UNCHANGED <<obVars, quVars, guVars, fpVars, wuVars, acVars, fiVars, foVars, reVars, shVars, simVars, sdVars, stVars, pfVars>>

StartSync ==
    /\ syncLoop = "idle"
    /\ isRunning' = TRUE
    /\ syncLoop' = "syncFromServer"
    /\ psOp' = [NoPsOp EXCEPT !.name = "startSync", !.before = baseSize, !.at = now]
    /\ UNCHANGED <<baseSize, sleepUntil>>
    /\ psFrame

StopSync ==
    /\ isRunning
    /\ isRunning' = FALSE
    /\ psOp' = [NoPsOp EXCEPT !.name = "stopSync", !.before = baseSize, !.at = now]
    /\ UNCHANGED <<baseSize, syncLoop, sleepUntil>>
    /\ psFrame

\* the refresh resolved and user.positions holds pos for the market
RefreshOk(pos) ==
    /\ syncLoop = "syncFromServer"
    /\ baseSize' = IF drifted(baseSize, serverSize(pos)) THEN serverSize(pos) ELSE baseSize
    /\ afterSync
    /\ psOp' = [name |-> "syncOk", before |-> baseSize, perp |-> pos, at |-> now]
    /\ UNCHANGED isRunning
    /\ psFrame

\* the refresh rejected: the catch logs the error
RefreshFail ==
    /\ syncLoop = "syncFromServer"
    /\ afterSync
    /\ psOp' = [NoPsOp EXCEPT !.name = "syncFail", !.before = baseSize, !.at = now]
    /\ UNCHANGED <<baseSize, isRunning>>
    /\ psFrame

\* the timer of sleep() fires
SleepTimer ==
    /\ syncLoop = "sleep"
    /\ now >= sleepUntil
    /\ syncLoop' = IF isRunning THEN "syncFromServer" ELSE "returned"
    /\ psOp' = [NoPsOp EXCEPT !.name = "sleepTimer", !.before = baseSize, !.at = now]
    /\ UNCHANGED <<baseSize, isRunning, sleepUntil>>
    /\ psFrame

ApplyFill(side, size) ==
    /\ LET next == IF side = "bid" THEN baseSize + size ELSE baseSize - size
       IN  /\ Abs(next) <= MaxLots * LotUnits
           /\ baseSize' = next
    /\ psOp' = [NoPsOp EXCEPT !.name = "applyFill", !.before = baseSize, !.at = now]
    /\ UNCHANGED <<isRunning, syncLoop, sleepUntil>>
    /\ psFrame

(***************************************************************************)
(* SpecPosition: the tracker against a server whose position is at the     *)
(* local one, within the drift threshold of it, or off it.                 *)
(***************************************************************************)
\* sizes the server reports: 0, one lot, and 0.00005, 0.0001 and 0.00015 off them
ServerSizes == {0, 1, 2, 3, LotUnits - 3, LotUnits - 2, LotUnits, LotUnits + 1}

ServerPositions ==
    {NoPerp} \cup {[perp |-> TRUE, isLong |-> l, baseSize |-> b] :
                      l \in BOOLEAN, b \in ServerSizes}

FillSizes == {LotUnits}

InitPosition ==
    /\ InitPsVars
    /\ InitAcVars
    /\ InitFiVars
    /\ InitFoVars
    /\ InitReVars
    /\ InitShVars
    /\ InitSimVars
    /\ InitSdVars
    /\ InitStVars
    /\ InitPfVars
    /\ InitWuVars
    /\ InitFpVars
    /\ InitOBVars
    /\ InitMMVars
    /\ InitQuVars
    /\ InitGuVars

NextPosition ==
    \/ StartSync
    \/ StopSync
    \/ \E pos \in ServerPositions : RefreshOk(pos)
    \/ RefreshFail
    \/ SleepTimer
    \/ \E side \in {"bid", "ask"}, size \in FillSizes : ApplyFill(side, size)
    \/ ClockStep

SpecPosition == InitPosition /\ [][NextPosition]_vars

(***************************************************************************)
(* Position reconcile.                                                     *)
(***************************************************************************)
\* the signed size of the server, read off the position by cases
RefServerSize(pos) ==
    CASE ~pos.perp -> 0
      [] pos.perp /\ pos.isLong -> pos.baseSize
      [] pos.perp /\ ~pos.isLong -> 0 - pos.baseSize

\* 0.0001 in units of size: two units of 1/SizeScale
RefThreshold == SizeScale \div 10000

\* C20: a sync whose refresh succeeds sets base_size to the signed server size when
\* they differ by more than 0.0001 and leaves it unchanged otherwise; a sync whose
\* refresh fails leaves base_size unchanged, and while the tracker is running the loop
\* sleeps one interval and then syncs again, no earlier.
C20_PositionReconcile ==
    [][/\ (syncLoop = "syncFromServer" /\ syncLoop' # "syncFromServer") =>
             /\ psOp'.name \in {"syncOk", "syncFail"}
             /\ psOp'.name = "syncOk" =>
                   LET server == RefServerSize(psOp'.perp)
                       diff == IF baseSize >= server THEN baseSize - server
                               ELSE server - baseSize
                   IN  IF diff > RefThreshold
                       THEN baseSize' = server
                       ELSE baseSize' = baseSize
             /\ psOp'.name = "syncFail" => baseSize' = baseSize
             /\ isRunning => /\ syncLoop' = "sleep"
                             /\ sleepUntil' = now + positionSyncIntervalMs
       /\ (syncLoop = "sleep" /\ syncLoop' # "sleep") =>
             /\ now >= sleepUntil
             /\ isRunning => syncLoop' = "syncFromServer"]_vars

\* a refresh found the server short by 0.00015 more than the local position and the
\* local position was set to it; the loop sleeps
C20_Witness ==
    /\ psOp.name = "syncOk"
    /\ psOp.perp.perp /\ ~psOp.perp.isLong
    /\ psOp.before = 0
    /\ psOp.perp.baseSize = 3
    /\ baseSize = -3
    /\ syncLoop = "sleep"

(***************************************************************************)
(* AccountStream: setOnFill, syncOrders and handleUpdate.  Order ids are   *)
(* the keys of the message's objects; Object.entries visits integer keys   *)
(* in ascending order.                                                     *)
(***************************************************************************)
\* the ids of a map or set, ascending
RECURSIVE Ascending(_)
Ascending(S) ==
    IF S = {} THEN <<>> ELSE <<Lowest(S)>> \o Ascending(S \ {Lowest(S)})

\* this.orders.set(orderId, {orderId, side, price, size: order.current_size, marketId})
RECURSIVE placesLoop(_, _, _)
placesLoop(ords, places, ids) ==
    IF ids = <<>> THEN ords
    ELSE LET id == Head(ids)
             order == places[id]
         IN  placesLoop(MapSet(ords, id, [orderId |-> id, side |-> order.side,
                                          price |-> order.price,
                                          size |-> order.current_size]),
                        places, Tail(ids))

\* a fill that takes its quantity off the tracked size
fillEntry_Decrement(ords, id, fill) ==
    IF id \in DOMAIN ords
    THEN IF ords[id].size - fill.quantity <= 0
         THEN MapDelete(ords, id)
         ELSE [ords EXCEPT ![id].size = ords[id].size - fill.quantity]
    ELSE ords

\* fill.remaining <= 0 ? this.orders.delete(orderId) : existing.size = fill.remaining
fillEntry(ords, id, fill) ==
    IF fill.remaining <= 0
    THEN MapDelete(ords, id)
    ELSE IF id \in DOMAIN ords
         THEN [ords EXCEPT ![id].size = fill.remaining]
         ELSE ords

\* the loop over Object.entries(data.fills): the map and the callbacks made
RECURSIVE fillsLoop(_, _, _, _, _)
fillsLoop(ords, events, cb, fills, ids) ==
    IF ids = <<>> THEN [orders |-> ords, events |-> events]
    ELSE LET id == Head(ids)
             fill == fills[id]
             called == IF fill.quantity > 0 /\ cb
                       THEN Append(events, [orderId |-> id, side |-> fill.side,
                                            size |-> fill.quantity, price |-> fill.price,
                                            remaining |-> fill.remaining])
                       ELSE events
         IN  fillsLoop(fillEntry(ords, id, fill), called, cb, fills, Tail(ids))

\* the loop over Object.keys(data.cancels)
RECURSIVE cancelsLoop(_, _)
cancelsLoop(ords, ids) ==
    IF ids = <<>> THEN ords ELSE cancelsLoop(MapDelete(ords, Head(ids)), Tail(ids))

\* AccountStream.handleUpdate(data)
accountHandleUpdate(ords, cb, data) ==
    LET placed == placesLoop(ords, data.places, Ascending(DOMAIN data.places))
        filled == fillsLoop(placed, <<>>, cb, data.fills, Ascending(DOMAIN data.fills))
    IN  [orders |-> cancelsLoop(filled.orders, Ascending(data.cancels)),
         events |-> filled.events]

\* what the account stream leaves alone
acFrame == UNCHANGED <<obVars, mmVars, quVars, guVars, fpVars, wuVars, psVars, fiVars, foVars, reVars, shVars, simVars, sdVars, stVars, pfVars>>

SetOnFill ==
    /\ ~onFill
    /\ onFill' = TRUE
    /\ acOp' = [NoAcOp EXCEPT !.name = "setOnFill", !.before = trackedOrders]
    /\ UNCHANGED trackedOrders
    /\ acFrame

\* the subscription delivers a message
AccountMessage(data) ==
    /\ LET r == accountHandleUpdate(trackedOrders, onFill, data)
       IN  /\ trackedOrders' = r.orders
           /\ acOp' = [name |-> "handleUpdate", data |-> data, before |-> trackedOrders,
                       events |-> r.events]
    /\ UNCHANGED onFill
    /\ acFrame

(***************************************************************************)
(* SpecAccount: account updates about two orders, a bid and an ask.        *)
(***************************************************************************)
AccountIds == {1, 2}

AccountSide(id) == IF id = 1 THEN "bid" ELSE "ask"

AccountPrice(id) == IF id = 1 THEN 19997 * TickUnits ELSE 20100 * TickUnits

\* a placement of 3 lots
AccountPlaces(id) ==
    {[side |-> AccountSide(id), price |-> AccountPrice(id), current_size |-> 3 * LotUnits]}

\* fills, as <<quantity, remaining>> in lots: of one lot with none or one left, of
\* nothing, and of a negative quantity with a negative remainder
AccountFills(id) ==
    {[side |-> AccountSide(id), price |-> AccountPrice(id), quantity |-> qr[1] * LotUnits,
      remaining |-> qr[2] * LotUnits] :
        qr \in {<<1, 0>>, <<1, 1>>, <<0, 1>>, <<-1, -1>>}}

\* functions from a subset of the ids into the entries of each id
AccountEntries(Entries(_)) ==
    UNION {{f \in [S -> UNION {Entries(id) : id \in S}] :
                \A id \in S : f[id] \in Entries(id)} : S \in SUBSET AccountIds}

AccountUpdates ==
    {[places |-> p, fills |-> f, cancels |-> c] :
        p \in AccountEntries(AccountPlaces), f \in AccountEntries(AccountFills),
        c \in SUBSET AccountIds}

InitAccount ==
    /\ InitAcVars
    /\ InitFiVars
    /\ InitFoVars
    /\ InitReVars
    /\ InitShVars
    /\ InitSimVars
    /\ InitSdVars
    /\ InitStVars
    /\ InitPfVars
    /\ InitPsVars
    /\ InitWuVars
    /\ InitFpVars
    /\ InitOBVars
    /\ InitMMVars
    /\ InitQuVars
    /\ InitGuVars

NextAccount ==
    \/ SetOnFill
    \/ \E data \in AccountUpdates : AccountMessage(data)

SpecAccount == InitAccount /\ [][NextAccount]_vars

(***************************************************************************)
(* Account updates.                                                        *)
(***************************************************************************)
\* the callbacks of the last message that name the order id
EventsOf(id) == {i \in DOMAIN acOp.events : acOp.events[i].orderId = id}

\* C21: with a fill callback registered, a fill entry with quantity > 0 makes one callback
\* and one with quantity <= 0 makes none; after the message a tracked order whose fill
\* has remaining <= 0 is absent, one whose fill has remaining > 0 has that size unless
\* cancelled in the message, a placed id is present unless filled to zero or cancelled
\* in the message, and a cancelled id is absent.
C21_AccountUpdateApplied ==
    acOp.name = "handleUpdate" =>
        LET data == acOp.data
            tracked == DOMAIN acOp.before \cup DOMAIN data.places
            zeroed == {id \in DOMAIN data.fills : data.fills[id].remaining <= 0}
        IN  /\ onFill => \A id \in DOMAIN data.fills :
                  Cardinality(EventsOf(id)) = IF data.fills[id].quantity > 0 THEN 1 ELSE 0
            /\ \A i \in DOMAIN acOp.events :
                  /\ acOp.events[i].orderId \in DOMAIN data.fills
                  /\ acOp.events[i].size = data.fills[acOp.events[i].orderId].quantity
            /\ \A id \in zeroed : id \notin DOMAIN trackedOrders
            /\ \A id \in (tracked \cap DOMAIN data.fills) \ (zeroed \cup data.cancels) :
                  /\ id \in DOMAIN trackedOrders
                  /\ trackedOrders[id].size = data.fills[id].remaining
            /\ \A id \in DOMAIN data.places \ (zeroed \cup data.cancels) :
                  id \in DOMAIN trackedOrders
            /\ \A id \in data.cancels : id \notin DOMAIN trackedOrders

\* a message placed order 1 and filled it by one lot with one lot left, and filled the
\* tracked order 2 to zero: two callbacks, order 1 tracked at one lot, order 2 gone
C21_Witness ==
    /\ acOp.name = "handleUpdate"
    /\ onFill
    /\ 2 \in DOMAIN acOp.before
    /\ DOMAIN acOp.data.places = {1}
    /\ DOMAIN acOp.data.fills = {1, 2}
    /\ acOp.data.fills[1].quantity > 0 /\ acOp.data.fills[1].remaining = LotUnits
    /\ acOp.data.fills[2].quantity > 0 /\ acOp.data.fills[2].remaining = 0
    /\ acOp.data.cancels = {}
    /\ Len(acOp.events) = 2
    /\ DOMAIN trackedOrders = {1}
    /\ trackedOrders[1].size = LotUnits

(***************************************************************************)
(* MarketMaker: the fill callback and cancelOrdersAsync.                   *)
(***************************************************************************)
\* market.marketId of the market the bot quotes, and the id of another market in
\* which the account has an order
marketId == 1

otherMarketId == marketId + 1

\* PositionTracker.isCloseMode(fairPrice)
isCloseMode(base, fairPrice) ==
    Abs(base * fairPrice) >= closeThresholdUsd * SizeScale * PriceScale

\* the resting order after a fill of size, if anything is left of it
Filled(o, size) == IF o.size > size THEN {[o EXCEPT !.size = o.size - size]} ELSE {}

\* what the fill callback and the cancels leave alone
fiFrame ==
    /\ UNCHANGED <<orderFirstSeenMs, isUpdating, fetchInfoPromise, jobs, syncWaiting,
                   nextOrderId, now>>
    /\ UNCHANGED <<obVars, quVars, guVars, fpVars, wuVars, psVars, acVars, foVars, reVars, shVars, simVars, sdVars, stVars, pfVars>>

\* the venue fills size of the resting order o and the account stream calls back:
\* applyFill, then cancelOrdersAsync if isCloseMode(fill.price)
OnFill(o, size) ==
    /\ o \in venueOrders
    /\ size <= o.size
    /\ fillOp.n < MaxFills
    /\ LET next == IF o.side = "bid" THEN baseSize + size ELSE baseSize - size
           fires == isCloseMode(next, o.price) /\ activeOrders # <<>>
       IN  /\ Abs(next) <= 2 * MaxLots * LotUnits
           /\ fires => Len(cancelJobs) < MaxJobs
           /\ baseSize' = next
           /\ venueOrders' = (venueOrders \ {o}) \cup Filled(o, size)
           /\ cancelJobs' = IF fires THEN Append(cancelJobs, activeOrders) ELSE cancelJobs
           /\ fillOp' = [name |-> "onFill", n |-> fillOp.n + 1, side |-> o.side,
                         size |-> size,
                         price |-> o.price, before |-> baseSize,
                         wasCloseMode |-> isCloseMode(baseSize, o.price),
                         isCloseMode |-> isCloseMode(next, o.price),
                         cached |-> activeOrders,
                         initiated |-> IF fires THEN activeOrders ELSE <<>>,
                         confirmed |-> fillOp.confirmed, marketId |-> marketId]
    /\ mmOp' = [NoMMOp EXCEPT !.name = "onFill"]
    /\ UNCHANGED activeOrders
    /\ fiFrame

\* the account stream calls back with a fill of an order of another market of the
\* account: the same callback, which does not read fill.marketId
OnOtherMarketFill(side, size, price) ==
    /\ fillOp.n < MaxFills
    /\ LET next == IF side = "bid" THEN baseSize + size ELSE baseSize - size
           fires == isCloseMode(next, price) /\ activeOrders # <<>>
       IN  /\ Abs(next) <= 2 * MaxLots * LotUnits
           /\ fires => Len(cancelJobs) < MaxJobs
           /\ baseSize' = next
           /\ cancelJobs' = IF fires THEN Append(cancelJobs, activeOrders) ELSE cancelJobs
           /\ fillOp' = [name |-> "onFill", n |-> fillOp.n + 1, side |-> side,
                         size |-> size,
                         price |-> price, before |-> baseSize,
                         wasCloseMode |-> isCloseMode(baseSize, price),
                         isCloseMode |-> isCloseMode(next, price),
                         cached |-> activeOrders,
                         initiated |-> IF fires THEN activeOrders ELSE <<>>,
                         confirmed |-> fillOp.confirmed, marketId |-> otherMarketId]
    /\ mmOp' = [NoMMOp EXCEPT !.name = "onFill"]
    /\ UNCHANGED <<activeOrders, venueOrders>>
    /\ fiFrame

\* cancelOrders of cancel job k resolves: .then(() => { this.activeOrders = [] })
CancelOk(k) ==
    /\ k \in 1..Len(cancelJobs)
    /\ venueOrders' = {o \in venueOrders :
                          \A i \in 1..Len(cancelJobs[k]) : cancelJobs[k][i].orderId # o.orderId}
    /\ activeOrders' = <<>>
    /\ cancelJobs' = RemoveAt(cancelJobs, k)
    /\ mmOp' = [NoMMOp EXCEPT !.name = "cancelled", !.live = activeOrders,
                              !.cancels = cancelJobs[k]]
    /\ fillOp' = [fillOp EXCEPT !.confirmed = @ \cup OrderIds(cancelJobs[k])]
    /\ UNCHANGED baseSize
    /\ fiFrame

\* cancelOrders of cancel job k rejects: .catch(...) clears the cache as well
CancelFail(k) ==
    /\ k \in 1..Len(cancelJobs)
    /\ activeOrders' = <<>>
    /\ cancelJobs' = RemoveAt(cancelJobs, k)
    /\ mmOp' = [NoMMOp EXCEPT !.name = "cancelFailed"]
    /\ UNCHANGED <<baseSize, venueOrders, fillOp>>
    /\ fiFrame

(***************************************************************************)
(* SpecFill: the quoting loop with fills of the resting orders.            *)
(***************************************************************************)
\* fills of one lot (4 USD at 400.0) and of three (12 USD, above closeThresholdUsd)
FillLots == {LotUnits, 3 * LotUnits}

\* the fair price of the updates
FillFairPrices == {4000 * TickUnits}

InitFill ==
    /\ baseSize = 0
    /\ venueOrders \in StartOrders
    /\ nextOrderId = Cardinality(venueOrders) + 1
    /\ activeOrders = mapApiOrdersToCached(ApiOrders(venueOrders))
    /\ orderFirstSeenMs = refreshOrderAges([id \in {} |-> 0], activeOrders, 0)
    /\ now = 0
    /\ isUpdating = FALSE
    /\ fetchInfoPromise = FALSE
    /\ jobs = <<>>
    /\ syncWaiting = FALSE
    /\ mmOp = NoMMOp
    /\ InitFiVars
    /\ InitFoVars
    /\ InitReVars
    /\ InitShVars
    /\ InitSimVars
    /\ InitSdVars
    /\ InitStVars
    /\ InitPfVars
    /\ InitAcVars
    /\ InitPsVars
    /\ InitWuVars
    /\ InitFpVars
    /\ InitOBVars
    /\ InitQuVars
    /\ InitGuVars

NextFill ==
    \/ \E o \in venueOrders, size \in FillLots : OnFill(o, size)
    \/ \E k \in 1..MaxJobs : CancelOk(k)
    \/ \E k \in 1..MaxJobs : CancelFail(k)
    \/ \E fairPrice \in FillFairPrices, bbo \in BBOs : Trigger(fairPrice, bbo)
    \/ \E j \in 1..MaxJobs : AtomicOk(j)
    \/ \E j \in 1..MaxJobs : AtomicFail(j)

SpecFill == InitFill /\ [][NextFill]_vars

(***************************************************************************)
(* Fill-driven cancel.                                                     *)
(***************************************************************************)
\* the last event was a fill that took the position from normal mode into close mode
\* while orders were cached
EnteredCloseMode ==
    /\ mmOp.name = "onFill"
    /\ ~fillOp.wasCloseMode
    /\ fillOp.isCloseMode
    /\ fillOp.cached # <<>>

\* the fill initiated a cancel of every cached order and did not wait for it
CancelAllInitiated ==
    /\ fillOp.initiated = fillOp.cached
    /\ cancelJobs # <<>>
    /\ cancelJobs[Len(cancelJobs)] = fillOp.cached
    /\ activeOrders = fillOp.cached

\* the executeUpdate of this step passed the re-entrancy guard with the position in
\* close mode at its fair price
UpdateInCloseMode ==
    /\ mmOp'.name \in {"noQuotes", "noop", "submitted"}
    /\ Len(mmOp'.allowed) = 1

\* C22: a fill that takes the position from normal into close mode while orders are
\* cached initiates a cancel of all cached orders in the same event without waiting, and
\* the next executeUpdate places exactly one quote, on the reducing side.
C22_CloseModeCancelAndRequote ==
    /\ [](EnteredCloseMode => CancelAllInitiated)
    /\ [][EnteredCloseMode /\ UpdateInCloseMode =>
            /\ Len(mmOp'.places) = 1
            /\ mmOp'.places[1].side = (IF baseSize > 0 THEN "ask" ELSE "bid")]_vars

\* the first half of C22 alone
C22_CancelInitiated == EnteredCloseMode => CancelAllInitiated

(***************************************************************************)
(* MarketMaker: the reference-feed health check.                           *)
(***************************************************************************)
\* lastReferencePriceAt > 0 ? Date.now() - lastReferencePriceAt : Infinity (Null)
sinceLastPrice(lastPriceAt, t) ==
    IF lastPriceAt > 0 THEN Number(t - lastPriceAt) ELSE Null

\* the health check goes on to switch feeds
switches(since, index, priority) ==
    /\ ~(~since.isNull /\ since.value < referenceStaleMs)
    /\ ~(index >= Len(priority) - 1)

\* what the health check leaves alone
foFrame ==
    /\ UNCHANGED <<zoLatest, lastLoggedSampleCount, hasLoggedZoOnlyReady, thWaiting,
                   thArgs, thDeadline, wuOp>>
    /\ UNCHANGED <<obVars, mmVars, quVars, guVars, fpVars, psVars, acVars, fiVars, reVars, shVars, simVars, sdVars, stVars, pfVars>>

\* the health-check interval fires: the callback of startReferenceHealthCheck,
\* with applyReferenceFeed(next) and connect()
HealthCheck ==
    /\ referenceFeedHealthInterval
    /\ now = healthDueAt
    /\ healthDueAt' = now + referenceHealthCheckMs
    /\ LET since == sinceLastPrice(lastReferencePriceAt, now)
           go == mmIsRunning /\ referenceFeed /\ switches(since, referenceFeedIndex, referenceFeedPriority)
       IN  /\ referenceFeedIndex' = IF go THEN referenceFeedIndex + 1 ELSE referenceFeedIndex
           /\ referenceFeed' = IF go THEN referenceFeedPriority[referenceFeedIndex + 2] # "zo"
                                ELSE referenceFeed
           /\ lastReferencePriceAt' = IF go THEN 0 ELSE lastReferencePriceAt
           /\ refLatest' = IF go THEN NoMidPrice ELSE refLatest
           /\ foOp' = [name |-> "healthCheck", upAt |-> IF go THEN now ELSE foOp.upAt,
                       at |-> now, lastPriceAt |-> lastReferencePriceAt, switched |-> go]
    /\ UNCHANGED <<referenceFeedPriority, enableFeedFailover, referenceFeedHealthInterval>>
    /\ foFrame

\* five seconds pass, once the health check due now has run
HealthClock ==
    /\ now + referenceHealthCheckMs <= MaxChecks * referenceHealthCheckMs
    /\ referenceFeedHealthInterval => healthDueAt > now
    /\ ~thWaiting
    /\ now' = now + referenceHealthCheckMs
    /\ UNCHANGED <<activeOrders, orderFirstSeenMs, isUpdating, fetchInfoPromise, baseSize,
                   jobs, syncWaiting, venueOrders, nextOrderId, mmOp>>
    /\ UNCHANGED <<obVars, quVars, guVars, fpVars, wuVars, psVars, acVars, fiVars, foVars, reVars, shVars, simVars, sdVars, stVars, pfVars>>

(***************************************************************************)
(* SpecFailover: a market maker configured for binance, coinbase or no     *)
(* reference feed, failover enabled or not, whose reference feeds deliver  *)
(* prices or stay silent.  The local orderbook is silent.                  *)
(***************************************************************************)
\* buildReferenceFeedPriority()
FeedPriorities ==
    {<<"binance", "coinbase", "zo">>, <<"coinbase", "binance", "zo">>, <<"zo">>}

\* run() has called initialize() and setupEventHandlers() at a time after the epoch
InitFailover ==
    /\ referenceFeedPriority \in FeedPriorities
    /\ referenceFeedIndex = 0
    /\ enableFeedFailover \in BOOLEAN
    /\ referenceFeedHealthInterval = enableFeedFailover
    /\ healthDueAt = 2 * referenceHealthCheckMs
    /\ foOp = [NoFoOp EXCEPT !.upAt = referenceHealthCheckMs]
    /\ referenceFeed = (referenceFeedPriority[1] # "zo")
    /\ lastReferencePriceAt = 0
    /\ zoLatest = NoMidPrice
    /\ refLatest = NoMidPrice
    /\ lastLoggedSampleCount = -1
    /\ hasLoggedZoOnlyReady = FALSE
    /\ thWaiting = FALSE
    /\ thArgs = Null
    /\ thDeadline = 0
    /\ wuOp = NoWuOp
    /\ activeOrders = <<>>
    /\ orderFirstSeenMs = [id \in {} |-> 0]
    /\ isUpdating = FALSE
    /\ fetchInfoPromise = FALSE
    /\ baseSize = 0
    /\ jobs = <<>>
    /\ syncWaiting = FALSE
    /\ venueOrders = {}
    /\ nextOrderId = 1
    /\ now = referenceHealthCheckMs
    /\ mmOp = NoMMOp
    /\ InitShVars
    /\ InitSimVars
    /\ InitSdVars
    /\ InitStVars
    /\ InitPfVars
    /\ InitReVars
    /\ InitFiVars
    /\ InitAcVars
    /\ InitPsVars
    /\ InitFpVars
    /\ InitOBVars
    /\ InitQuVars
    /\ InitGuVars

NextFailover ==
    \/ HealthCheck
    \/ HealthClock
    \/ \E mid \in WarmupRefMids : HandleReferencePrice(mid)

SpecFailover == InitFailover /\ [][NextFailover]_vars

(***************************************************************************)
(* Feed failover.                                                          *)
(***************************************************************************)
\* C23: the feed index changes only in a health check, by one step to a candidate of
\* the priority list, with failover enabled, and only when the current feed has
\* produced no price for at least 20 s, counted from its last price or, if it has
\* produced none, from the moment it was brought up; the index never decreases.
C23_FailoverOnlyWhenStale ==
    [][referenceFeedIndex' # referenceFeedIndex =>
          /\ foOp'.name = "healthCheck" /\ foOp'.at = now
          /\ referenceFeedIndex' = referenceFeedIndex + 1
          /\ referenceFeedIndex' < Len(referenceFeedPriority)
          /\ enableFeedFailover
          /\ IF lastReferencePriceAt > 0
             THEN now - lastReferencePriceAt >= referenceStaleMs
             ELSE now - foOp.upAt >= referenceStaleMs]_vars

\* the parts of C23 that do not count the silence of a feed without a price
C23_SwitchesInHealthChecksOnly ==
    [][referenceFeedIndex' # referenceFeedIndex =>
          /\ foOp'.name = "healthCheck" /\ foOp'.at = now
          /\ referenceFeedIndex' = referenceFeedIndex + 1
          /\ referenceFeedIndex' < Len(referenceFeedPriority)
          /\ enableFeedFailover
          /\ lastReferencePriceAt > 0 => now - lastReferencePriceAt >= referenceStaleMs]_vars

(***************************************************************************)
(* MarketMaker.safeFetchInfo and its two requesters: the order-sync        *)
(* interval (syncOrders) and the position sync loop (refreshUser).  When   *)
(* the fetch settles, finally() clears the slot and the continuations of   *)
(* every waiter run before any other event.                                *)
(***************************************************************************)
\* a safeFetchInfo that fetches on every call
startsFetch_Always(slot) == TRUE

\* if (this.fetchInfoPromise) return this.fetchInfoPromise; else fetch
startsFetch(slot) == ~slot

\* safeFetchInfo(user), called by requester
safeFetchInfo(requester) ==
    /\ userFetches' = IF startsFetch(fetchInfoPromise) THEN userFetches + 1 ELSE userFetches
    /\ fetchInfoPromise' = TRUE
    /\ reOp' = [name |-> "request", requester |-> requester,
                started |-> startsFetch(fetchInfoPromise), waiters |-> {}]

\* what the requests leave alone
reFrame ==
    /\ UNCHANGED <<activeOrders, orderFirstSeenMs, isUpdating, baseSize, jobs,
                   venueOrders, nextOrderId, now, mmOp>>
    /\ UNCHANGED <<obVars, quVars, guVars, fpVars, wuVars, acVars, fiVars, foVars, shVars, simVars, sdVars, stVars, pfVars>>

\* the order-sync interval fires: syncOrders up to its then()
OrderSyncTimer ==
    /\ "orderSync" \in intervals
    /\ ~syncWaiting
    /\ userFetches < MaxJobs
    /\ syncWaiting' = TRUE
    /\ safeFetchInfo("syncOrders")
    /\ UNCHANGED psVars
    /\ reFrame

\* startSync, or the sleep of the sync loop ends: syncFromServer up to its await
PositionRefresh ==
    /\ syncLoop \in {"idle", "sleep"}
    /\ syncLoop = "sleep" => isRunning
    /\ userFetches < MaxJobs
    /\ isRunning' = TRUE
    /\ syncLoop' = "syncFromServer"
    /\ safeFetchInfo("syncFromServer")
    /\ UNCHANGED <<syncWaiting, sleepUntil, psOp>>
    /\ reFrame

\* a user.fetchInfo() settles: finally() clears the slot, then syncOrders' then() or
\* catch() and the rest of syncFromServer run
FetchInfoSettles(ok, pos) ==
    /\ userFetches > 0
    /\ userFetches' = userFetches - 1
    /\ fetchInfoPromise' = FALSE
    /\ syncWaiting' = FALSE
    /\ IF syncWaiting /\ ok
       THEN /\ activeOrders' = mapApiOrdersToCached(ApiOrders(venueOrders))
            /\ orderFirstSeenMs' = refreshOrderAges(orderFirstSeenMs, activeOrders', now)
       ELSE UNCHANGED <<activeOrders, orderFirstSeenMs>>
    /\ IF syncLoop = "syncFromServer"
       THEN /\ baseSize' = IF ok /\ drifted(baseSize, serverSize(pos))
                            THEN serverSize(pos) ELSE baseSize
            /\ afterSync
            /\ psOp' = [name |-> IF ok THEN "syncOk" ELSE "syncFail", before |-> baseSize,
                        perp |-> IF ok THEN pos ELSE NoPerp, at |-> now]
       ELSE UNCHANGED <<baseSize, syncLoop, sleepUntil, psOp>>
    /\ reOp' = [name |-> IF ok THEN "resolved" ELSE "rejected", requester |-> "",
                started |-> FALSE,
                waiters |-> (IF syncWaiting THEN {"syncOrders"} ELSE {})
                            \cup (IF syncLoop = "syncFromServer"
                                  THEN {"syncFromServer"} ELSE {})]
    /\ UNCHANGED <<isUpdating, jobs, venueOrders, nextOrderId, now, mmOp, isRunning>>
    /\ UNCHANGED <<obVars, quVars, guVars, fpVars, wuVars, acVars, fiVars, foVars, shVars, simVars, sdVars, stVars, pfVars>>

(***************************************************************************)
(* SpecRefresh: the two requesters of the user snapshot, with fills and    *)
(* stopSync in between.                                                    *)
(***************************************************************************)
RefreshPositions == {NoPerp, [perp |-> TRUE, isLong |-> TRUE, baseSize |-> LotUnits + 3]}

InitRefresh ==
    /\ baseSize = 0
    /\ venueOrders \in StartOrders
    /\ nextOrderId = Cardinality(venueOrders) + 1
    /\ activeOrders = <<>>
    /\ orderFirstSeenMs = [id \in {} |-> 0]
    /\ now = 0
    /\ isUpdating = FALSE
    /\ fetchInfoPromise = FALSE
    /\ jobs = <<>>
    /\ syncWaiting = FALSE
    /\ mmOp = NoMMOp
    /\ InitReVars
    /\ InitShVars
    /\ InitSimVars
    /\ InitSdVars
    /\ InitStVars
    /\ InitPfVars
    /\ InitFoVars
    /\ InitFiVars
    /\ InitAcVars
    /\ InitPsVars
    /\ InitWuVars
    /\ InitFpVars
    /\ InitOBVars
    /\ InitQuVars
    /\ InitGuVars

NextRefresh ==
    \/ OrderSyncTimer
    \/ PositionRefresh
    \/ \E ok \in BOOLEAN, pos \in RefreshPositions : FetchInfoSettles(ok, pos)
    \/ \E side \in {"bid", "ask"}, size \in FillSizes : ApplyFill(side, size)
    \/ StopSync

SpecRefresh == InitRefresh /\ [][NextRefresh]_vars

(***************************************************************************)
(* Shared refresh dedup.                                                   *)
(***************************************************************************)
\* the requesters that wait for the fetch in flight
Waiting ==
    (IF syncWaiting THEN {"syncOrders"} ELSE {})
        \cup (IF syncLoop = "syncFromServer" THEN {"syncFromServer"} ELSE {})

\* C24: a request made while a fetch is in flight starts no second fetch and completes
\* when that fetch settles; when the fetch settles, by success or by failure, the slot
\* is cleared and the next request starts a new fetch; the order-sync timer and the
\* position sync loop never have two fetches in flight.
C24_SharedRefresh ==
    /\ [](/\ userFetches <= 1
          /\ fetchInfoPromise <=> userFetches = 1
          /\ Waiting # {} => userFetches = 1)
    /\ [][/\ (reOp' # reOp /\ reOp'.name = "request") =>
                /\ reOp'.started <=> userFetches = 0
                /\ userFetches' = 1
                /\ reOp'.requester \in Waiting'
          /\ userFetches' < userFetches =>
                /\ ~fetchInfoPromise'
                /\ Waiting' = {}
                /\ reOp'.waiters = Waiting]_vars

\* a fetch settled while both requesters were waiting for it
C24_Witness ==
    /\ reOp.name \in {"resolved", "rejected"}
    /\ reOp.waiters = {"syncOrders", "syncFromServer"}
    /\ userFetches = 0
    /\ ~fetchInfoPromise
    /\ syncLoop = "sleep"

(***************************************************************************)
(* MarketMaker.shutdown(): the part up to the await of cancelOrders, and   *)
(* the part after it.  process.exit ends every callback of the process.    *)
(***************************************************************************)
\* a shutdown that keeps the cache after cancelOrders has resolved
afterCancel_Keep(orders) == orders

\* this.activeOrders = [] once cancelOrders has resolved
afterCancel(orders) == <<>>

\* shutdown() up to its await, or up to process.exit(0) when no order is cached
ShutdownBegin ==
    /\ shPhase = "running"
    /\ mmIsRunning' = FALSE
    /\ thWaiting' = FALSE
    /\ thArgs' = Null
    /\ isRunning' = FALSE
    /\ psOp' = [NoPsOp EXCEPT !.name = "stopSync", !.before = baseSize, !.at = now]
    /\ intervals' = {}
    /\ referenceFeedHealthInterval' = FALSE
    /\ closedStreams' = (IF referenceFeed THEN {"referenceFeed"} ELSE {})
                           \cup {"orderbookStream", "accountStream"}
    /\ close
    /\ IF Len(activeOrders) > 0
       THEN /\ shPhase' = "cancelling"
            /\ shOrders' = activeOrders
            /\ UNCHANGED exitCode
       ELSE /\ shPhase' = "exited"
            /\ exitCode' = Number(0)
            /\ UNCHANGED shOrders
    /\ mmOp' = [NoMMOp EXCEPT !.name = "shutdown"]
    /\ UNCHANGED <<activeOrders, orderFirstSeenMs, isUpdating, fetchInfoPromise, baseSize,
                   jobs, syncWaiting, venueOrders, nextOrderId, now>>
    /\ UNCHANGED <<referenceFeed, lastReferencePriceAt, zoLatest, refLatest,
                   lastLoggedSampleCount, hasLoggedZoOnlyReady, thDeadline, wuOp>>
    /\ UNCHANGED <<syncLoop, sleepUntil, shCancelled>>
    /\ UNCHANGED <<referenceFeedPriority, referenceFeedIndex, enableFeedFailover,
                   healthDueAt, foOp>>
    /\ UNCHANGED <<quVars, guVars, fpVars, acVars, fiVars, reVars, simVars, sdVars, stVars, pfVars>>

\* what the end of shutdown() leaves alone
shFrame ==
    /\ UNCHANGED <<orderFirstSeenMs, isUpdating, fetchInfoPromise, baseSize, jobs,
                   syncWaiting, nextOrderId, now, mmOp>>
    /\ UNCHANGED <<mmIsRunning, intervals, closedStreams, shOrders>>
    /\ UNCHANGED <<obVars, quVars, guVars, fpVars, wuVars, psVars, acVars, fiVars, foVars, reVars, simVars, sdVars, stVars, pfVars>>

\* cancelOrders resolves: the venue has cancelled the orders, the cache is emptied,
\* process.exit(0)
ShutdownCancelOk ==
    /\ shPhase = "cancelling"
    /\ venueOrders' = {o \in venueOrders : o.orderId \notin OrderIds(shOrders)}
    /\ shCancelled' = {o.orderId : o \in venueOrders} \cap OrderIds(shOrders)
    /\ activeOrders' = afterCancel(activeOrders)
    /\ shPhase' = "exited"
    /\ exitCode' = Number(0)
    /\ shFrame

\* cancelOrders throws: the catch logs the error, process.exit(0)
ShutdownCancelFail ==
    /\ shPhase = "cancelling"
    /\ shPhase' = "exited"
    /\ exitCode' = Number(0)
    /\ UNCHANGED <<activeOrders, venueOrders, shCancelled>>
    /\ shFrame

(***************************************************************************)
(* SpecShutdown: a market maker with or without a reference feed, its      *)
(* calculator warmed up, its intervals and sync loop running, that gets    *)
(* one signal.  The await of cancelOrders settles.                         *)
(***************************************************************************)
ShutdownMid == 4000 * TickUnits

\* the calculator after two paired samples, in the seconds 1 and 2
WarmCalc ==
    addSample(addSample([samples |-> [i \in {} |-> 0], head |-> 0, count |-> 0,
                         lastSecond |-> 0],
                        1000, ShutdownMid, ShutdownMid),
              2000, ShutdownMid, ShutdownMid)

InitShutdown ==
    /\ now = 2000
    /\ referenceFeed \in BOOLEAN
    /\ referenceFeedPriority =
          IF referenceFeed THEN <<"binance", "coinbase", "zo">> ELSE <<"zo">>
    /\ referenceFeedIndex = 0
    /\ enableFeedFailover = TRUE
    /\ referenceFeedHealthInterval = TRUE
    /\ healthDueAt = now
    /\ foOp = [NoFoOp EXCEPT !.upAt = 0]
    /\ samples = IF referenceFeed THEN WarmCalc.samples ELSE [i \in {} |-> 0]
    /\ head = IF referenceFeed THEN WarmCalc.head ELSE 0
    /\ count = IF referenceFeed THEN WarmCalc.count ELSE 0
    /\ lastSecond = IF referenceFeed THEN WarmCalc.lastSecond ELSE 0
    /\ fpOp = NoFpOp
    /\ fpPrev = NoFpOp
    /\ lastReferencePriceAt = IF referenceFeed THEN now ELSE 0
    /\ zoLatest = MidPrice(ShutdownMid, now)
    /\ refLatest = IF referenceFeed THEN MidPrice(ShutdownMid, now) ELSE NoMidPrice
    /\ lastLoggedSampleCount = IF referenceFeed THEN warmupSeconds ELSE -1
    /\ hasLoggedZoOnlyReady = FALSE
    /\ thWaiting = FALSE
    /\ thArgs = Null
    /\ thDeadline = 0
    /\ wuOp = NoWuOp
    /\ baseSize = 0
    /\ venueOrders \in StartOrders
    /\ nextOrderId = Cardinality(venueOrders) + 1
    /\ activeOrders = mapApiOrdersToCached(ApiOrders(venueOrders))
    /\ orderFirstSeenMs = refreshOrderAges([id \in {} |-> 0], activeOrders, now)
    /\ isUpdating = FALSE
    /\ fetchInfoPromise = FALSE
    /\ jobs = <<>>
    /\ syncWaiting = FALSE
    /\ mmOp = NoMMOp
    /\ isRunning = TRUE
    /\ syncLoop = "sleep"
    /\ sleepUntil = now + positionSyncIntervalMs
    /\ psOp = NoPsOp
    /\ InitShVars
    /\ InitSimVars
    /\ InitSdVars
    /\ InitStVars
    /\ InitPfVars
    /\ InitReVars
    /\ InitFiVars
    /\ InitAcVars
    /\ InitOBVars
    /\ InitQuVars
    /\ InitGuVars

\* no user snapshot has settled yet: the behaviours hold one round of snapshots
FirstRound == reOp.name \in {"init", "request"}

\* the await of cancelOrders settles
ShutdownSettles == ShutdownCancelOk \/ ShutdownCancelFail

NextShutdown ==
    /\ shPhase # "exited"
    /\ \/ HandleReferencePrice(ShutdownMid)
       \/ HandleZoPrice(ShutdownMid)
       \/ ThrottleTimer
       \/ \E j \in 1..MaxJobs : AtomicOk(j)
       \/ \E j \in 1..MaxJobs : AtomicFail(j)
       \/ FirstRound /\ OrderSyncTimer
       \/ FirstRound /\ syncLoop = "sleep" /\ PositionRefresh
       \/ \E ok \in BOOLEAN : FetchInfoSettles(ok, NoPerp)
       \/ HealthCheck
       \/ ShutdownBegin
       \/ ShutdownCancelOk
       \/ ShutdownCancelFail

SpecShutdown == InitShutdown /\ [][NextShutdown]_vars /\ WF_vars(ShutdownSettles)

(***************************************************************************)
(* Shutdown.                                                               *)
(***************************************************************************)
\* the throttle, the intervals, the sync loop and the streams after shutdown has begun
Stopped ==
    /\ ~mmIsRunning
    /\ ~thWaiting /\ thArgs.isNull
    /\ intervals = {}
    /\ ~referenceFeedHealthInterval
    /\ ~isRunning
    /\ isClosing
    /\ {"orderbookStream", "accountStream"} \subseteq closedStreams
    /\ referenceFeed => "referenceFeed" \in closedStreams

\* this step starts no executeUpdate, no order resync, no position sync, no health check
StartsNothing ==
    /\ mmOp' = mmOp \/ mmOp'.name \notin {"submitted", "noop", "noQuotes", "dropped"}
    /\ reOp' = reOp \/ reOp'.name # "request"
    /\ foOp' = foOp

C25_WitnessThrows ==
    /\ shPhase = "exited"
    /\ shOrders # <<>>
    /\ shCancelled = {}
    /\ activeOrders # <<>>

(***************************************************************************)
(* The simulated-exchange bot: SimulatedExchange, buildQuotes and          *)
(* MarketMakerBot.  Prices are in cents.  Every await of syncQuotes is on  *)
(* a promise the simulated exchange has already resolved, so a syncQuotes  *)
(* runs to its end before the next timer callback.                         *)
(***************************************************************************)
baseQuoteSpreadBps == 20

\* buildQuotes: Number((mid -+ mid * (spreadBps / 10000) * 0.5).toFixed(2))
buildQuotes(mid, bps) ==
    << [side |-> "buy", price |-> Max(1, mid - ((mid * bps + 9999) \div 20000))],
       [side |-> "sell", price |-> mid + ((mid * bps + 10000) \div 20000)] >>

\* openOrders.slice(0, Math.max(0, openOrders.length - maxActiveOrders))
ordersToCancel(open, limit) == SubSeq(open, 1, Max(0, Len(open) - limit))

\* SimulatedExchange.cancelOrder for each order of cancels
cancelAll(open, cancels) ==
    SelectSeq(open, LAMBDA o : \A k \in 1..Len(cancels) : cancels[k].id # o.id)

\* SimulatedExchange.placeOrder for each quote, under fresh ids from nextId on
placeAll(open, quotes, nextId) ==
    open \o [k \in 1..Len(quotes) |->
                [id |-> nextId + k - 1, side |-> quotes[k].side, price |-> quotes[k].price]]

\* MarketMakerBot.syncQuotes, with getOrderBook moving the mid by drift
syncQuotes(drift, name) ==
    LET mid == Max(10000, midPrice + drift)
        quotes == buildQuotes(mid, baseQuoteSpreadBps)
        cancels == ordersToCancel(openOrders, maxActiveOrders)
    IN  /\ simNextId + Len(quotes) <= 2 * MaxCycles + 1
        /\ midPrice' = mid
        /\ openOrders' = placeAll(cancelAll(openOrders, cancels), quotes, simNextId)
        /\ simNextId' = simNextId + Len(quotes)
        /\ simOp' = [name |-> name, before |-> Len(openOrders),
                     cancelled |-> Len(cancels), placed |-> Len(quotes)]

\* what the simulated-exchange bot leaves alone
simFrame ==
    UNCHANGED <<obVars, mmVars, quVars, guVars, fpVars, wuVars, psVars, acVars, fiVars, foVars, reVars, shVars, sdVars, stVars, pfVars>>

\* start(): connect, the first syncQuotes, setInterval
SimStart(drift) ==
    /\ simOp.name = "init"
    /\ syncQuotes(drift, "start")
    /\ interval' = TRUE
    /\ UNCHANGED maxActiveOrders
    /\ simFrame

\* the interval fires: syncQuotes
SimInterval(drift) ==
    /\ interval
    /\ syncQuotes(drift, "syncQuotes")
    /\ UNCHANGED <<interval, maxActiveOrders>>
    /\ simFrame

\* stop(): clearInterval, disconnect
SimStop ==
    /\ interval
    /\ interval' = FALSE
    /\ openOrders' = <<>>
    /\ simOp' = [NoSimOp EXCEPT !.name = "stop", !.before = Len(openOrders)]
    /\ UNCHANGED <<midPrice, maxActiveOrders, simNextId>>
    /\ simFrame

(***************************************************************************)
(* SpecSim: the bot with BOT_MAX_ORDERS of 2, 3 or 4, on an exchange       *)
(* whose mid moves down or up by 10.00 at every getOrderBook.              *)
(***************************************************************************)
SimDrifts == {-1000, 1000}

InitSim ==
    /\ openOrders = <<>>
    /\ midPrice = 6400000
    /\ maxActiveOrders \in {2, 3, 4}
    /\ interval = FALSE
    /\ simNextId = 1
    /\ simOp = NoSimOp
    /\ InitSdVars
    /\ InitStVars
    /\ InitPfVars
    /\ InitShVars
    /\ InitReVars
    /\ InitFoVars
    /\ InitFiVars
    /\ InitAcVars
    /\ InitPsVars
    /\ InitWuVars
    /\ InitFpVars
    /\ InitOBVars
    /\ InitMMVars
    /\ InitQuVars
    /\ InitGuVars

NextSim ==
    \/ \E drift \in SimDrifts : SimStart(drift)
    \/ \E drift \in SimDrifts : SimInterval(drift)
    \/ SimStop

SpecSim == InitSim /\ [][NextSim]_vars

(***************************************************************************)
(* BOT_MAX_ORDERS.                                                         *)
(***************************************************************************)
\* C26: after any number of syncQuotes runs the number of open orders for the symbol
\* on the exchange never exceeds maxActiveOrders.
C26_MaxActiveOrders ==
    Len(openOrders) <= maxActiveOrders

\* what syncQuotes does keep: at most maxActiveOrders orders before it places its two
C26_AtMostTwoOver ==
    Len(openOrders) <= maxActiveOrders + 2

(***************************************************************************)
(* SpecSide: one OrderbookSide, empty, with two levels or with MAX_LEVELS  *)
(* levels, to which one delta is applied.                                  *)
(***************************************************************************)
\* applyDeltas(entries) on the side
ApplyDeltas(entries) ==
    /\ obSideOp = NoSideOp
    /\ obSide' = applyDeltas(obSide, obSideIsAsk, entries)
    /\ obSideOp' = [name |-> "applyDeltas", before |-> obSide, entries |-> entries,
                    needsSort |-> ApplyEntries(obSide.levels, FALSE, entries).needsSort]
    /\ UNCHANGED obSideIsAsk
    /\ UNCHANGED <<obVars, mmVars, quVars, guVars, fpVars, wuVars, psVars, acVars, fiVars, foVars, reVars, shVars, simVars, stVars, pfVars>>

\* prices below, inside and above the levels of the sides, and two sizes
SidePrices == {11, 50, 150, 250}

SideEntries == [price : SidePrices, size : {0, 2}]

\* the deltas: up to MaxEntries entries
SideDeltas == UNION {[1..n -> SideEntries] : n \in 1..MaxEntries}

\* levels of size 1 at the prices of S
LevelsAt(S) == [p \in S |-> 1]

SideLevels == {LevelsAt({}), LevelsAt({50, 150}), LevelsAt(101..(100 + MAX_LEVELS))}

InitSide ==
    /\ obSideIsAsk \in BOOLEAN
    /\ \E levels \in SideLevels : obSide = rebuildSortedPrices(levels, obSideIsAsk)
    /\ obSideOp = NoSideOp
    /\ InitStVars
    /\ InitPfVars
    /\ InitSimVars
    /\ InitShVars
    /\ InitReVars
    /\ InitFoVars
    /\ InitFiVars
    /\ InitAcVars
    /\ InitPsVars
    /\ InitWuVars
    /\ InitFpVars
    /\ InitOBVars
    /\ InitMMVars
    /\ InitQuVars
    /\ InitGuVars

NextSide ==
    \E entries \in SideDeltas : ApplyDeltas(entries)

SpecSide == InitSide /\ [][NextSide]_vars

(***************************************************************************)
(* Applying a delta to one side.                                           *)
(***************************************************************************)
\* the prices the delta names
Named(entries) == {entries[k].price : k \in 1..Len(entries)}

\* the size the delta gives price p: that of the last entry naming it
LastSize(entries, p) ==
    LET k == CHOOSE i \in 1..Len(entries) :
                 /\ entries[i].price = p
                 /\ \A j \in (i + 1)..Len(entries) : entries[j].price # p
    IN  entries[k].size

\* the levels named set absolutely, the others as they were
Absolute(levels, entries) ==
    LET keys == {p \in (DOMAIN levels) \cup Named(entries) :
                    IF p \in Named(entries) THEN LastSize(entries, p) # 0 ELSE TRUE}
    IN  [p \in keys |-> IF p \in Named(entries) THEN LastSize(entries, p) ELSE levels[p]]

\* p is at least as good a price as q on this side
Better(p, q, isAsk) == IF isAsk THEN p <= q ELSE p >= q

\* the n best prices of S
BestKeys(S, n, isAsk) ==
    {p \in S : Cardinality({q \in S : q # p /\ Better(q, p, isAsk)}) < n}

\* C27: applying a delta to one side removes the levels it names with size 0 and sets
\* the levels it names with another size to exactly that size, leaves the other levels
\* unchanged, and keeps the best MAX_LEVELS prices of the result; a delta of size-0
\* entries for prices not in the book changes nothing and triggers no re-sort; the
\* best price is the highest bid, the lowest ask, present.
C27_ApplyDelta ==
    obSideOp.name = "applyDeltas" =>
        LET before == obSideOp.before.levels
            entries == obSideOp.entries
            full == Absolute(before, entries)
            kept == BestKeys(DOMAIN full, MAX_LEVELS, obSideIsAsk)
        IN  /\ obSide.levels = [p \in kept |-> full[p]]
            /\ (\A k \in 1..Len(entries) :
                    entries[k].size = 0 /\ entries[k].price \notin DOMAIN before) =>
                   (obSide = obSideOp.before /\ ~obSideOp.needsSort)
            /\ IF DOMAIN obSide.levels = {}
               THEN getBest(obSide) = NoBest
               ELSE /\ getBest(obSide) \in DOMAIN obSide.levels
                    /\ \A p \in DOMAIN obSide.levels :
                          Better(getBest(obSide), p, obSideIsAsk)

\* a full bid side got a better price and a size change: the worst level was dropped
C27_Witness ==
    /\ obSideOp.name = "applyDeltas"
    /\ ~obSideIsAsk
    /\ Cardinality(DOMAIN obSideOp.before.levels) = MAX_LEVELS
    /\ Cardinality(DOMAIN obSide.levels) = MAX_LEVELS
    /\ 250 \in DOMAIN obSide.levels
    /\ 101 \notin DOMAIN obSide.levels
    /\ obSide.levels[150] = 2
    /\ getBest(obSide) = 250

(***************************************************************************)
(* ZoOrderbookStream under a clock: the callbacks with Date.now(), the     *)
(* staleness interval every STALE_CHECK_INTERVAL_MS and the reconnect      *)
(* timer RECONNECT_DELAY_MS after scheduleReconnect.                       *)
(***************************************************************************)
\* what the stream leaves alone
stFrame ==
    UNCHANGED <<mmVars, quVars, guVars, fpVars, wuVars, psVars, acVars, fiVars, foVars, reVars, shVars, simVars, sdVars, pfVars>>

\* scheduleReconnect has set the timer in this step
armsReconnect == reconnectTimeout' /\ ~reconnectTimeout

\* this.lastUpdateTime > 0 && now - this.lastUpdateTime > STALE_THRESHOLD_MS
isStale(last, t) == last > 0 /\ t - last > STALE_THRESHOLD_MS

ConnectAt ==
    /\ connect
    /\ quietSince' = now
    /\ UNCHANGED <<staleDueAt, reconnectDueAt, stOp>>
    /\ stFrame

MessageAt(k) ==
    /\ messageEvent(k, now)
    /\ quietSince' = now
    /\ UNCHANGED <<staleDueAt, reconnectDueAt, stOp>>
    /\ stFrame

CloseEventAt(s) ==
    /\ closeEvent(s)
    /\ reconnectDueAt' = IF armsReconnect THEN now + RECONNECT_DELAY_MS ELSE reconnectDueAt
    /\ UNCHANGED <<staleDueAt, quietSince, stOp>>
    /\ stFrame

\* the staleness interval fires: the callback of startStaleCheck
StaleCheckAt ==
    /\ staleCheckInterval
    /\ now = staleDueAt
    /\ staleDueAt' = now + STALE_CHECK_INTERVAL_MS
    /\ LET forced == ~isClosing /\ isStale(lastUpdateTime, now)
       IN  /\ IF forced
              THEN ScheduleReconnect(subs, subscription)
              ELSE UNCHANGED <<subs, subscription, reconnectTimeout>>
           /\ stOp' = [name |-> "staleCheck", at |-> now, open |-> subscription # 0,
                       closing |-> isClosing, lastUpdateTime |-> lastUpdateTime,
                       quietSince |-> quietSince, forced |-> forced]
           /\ obOp' = [NoOp EXCEPT !.name = IF forced THEN "stale" ELSE "fresh"]
    /\ reconnectDueAt' = IF armsReconnect THEN now + RECONNECT_DELAY_MS ELSE reconnectDueAt
    /\ UNCHANGED <<bookVars, isClosing, staleCheckInterval, connectCalled, fetches>>
    /\ UNCHANGED quietSince
    /\ stFrame

ReconnectAt ==
    /\ now = reconnectDueAt
    /\ reconnect
    /\ quietSince' = now
    /\ UNCHANGED <<staleDueAt, reconnectDueAt, stOp>>
    /\ stFrame

\* nord.getOrderbook answers; connect() goes on to startStaleCheck
FetchOkAt(f, U) ==
    /\ fetchOk(f, U)
    /\ staleDueAt' = IF staleCheckInterval' /\ ~staleCheckInterval
                     THEN now + STALE_CHECK_INTERVAL_MS ELSE staleDueAt
    /\ UNCHANGED <<reconnectDueAt, quietSince, stOp>>
    /\ stFrame

\* the times at which a timer of the stream fires
DueTimes ==
    (IF staleCheckInterval THEN {staleDueAt} ELSE {})
        \cup (IF reconnectTimeout THEN {reconnectDueAt} ELSE {})

\* time passes up to the next timer, or one staleness period when none is set
StaleClock ==
    /\ \A d \in DueTimes : d > now
    /\ LET next == CHOOSE t \in DueTimes \cup {now + STALE_CHECK_INTERVAL_MS} :
                       \A d \in DueTimes \cup {now + STALE_CHECK_INTERVAL_MS} : t <= d
       IN  /\ next <= MaxPeriods * STALE_CHECK_INTERVAL_MS
           /\ now' = next
    /\ UNCHANGED <<activeOrders, orderFirstSeenMs, isUpdating, fetchInfoPromise, baseSize,
                   jobs, syncWaiting, venueOrders, nextOrderId, mmOp>>
    /\ UNCHANGED <<obVars, quVars, guVars, fpVars, wuVars, psVars, acVars, fiVars, foVars, reVars, shVars, simVars, sdVars, stVars, pfVars>>

(***************************************************************************)
(* SpecStale: the stream from its construction, one period after the       *)
(* epoch of the clock, with messages, socket closes, snapshot answers and  *)
(* failures at any time.                                                   *)
(***************************************************************************)
InitStale ==
    /\ activeOrders = <<>>
    /\ orderFirstSeenMs = [id \in {} |-> 0]
    /\ isUpdating = FALSE
    /\ fetchInfoPromise = FALSE
    /\ baseSize = 0
    /\ jobs = <<>>
    /\ syncWaiting = FALSE
    /\ venueOrders = {}
    /\ nextOrderId = 1
    /\ now = STALE_CHECK_INTERVAL_MS
    /\ mmOp = NoMMOp
    /\ InitStVars
    /\ InitPfVars
    /\ InitSdVars
    /\ InitSimVars
    /\ InitShVars
    /\ InitReVars
    /\ InitFoVars
    /\ InitFiVars
    /\ InitAcVars
    /\ InitPsVars
    /\ InitWuVars
    /\ InitFpVars
    /\ InitOBVars
    /\ InitQuVars
    /\ InitGuVars

NextStale ==
    \/ ConnectAt
    \/ \E k \in 1..MaxId : MessageAt(k)
    \/ \E s \in 1..MaxSubs : CloseEventAt(s)
    \/ StaleCheckAt
    \/ ReconnectAt
    \/ \E f \in fetches, U \in 0..MaxId : FetchOkAt(f, U)
    \/ \E f \in fetches : FetchFail(f)
    \/ StaleClock

SpecStale == InitStale /\ [][NextStale]_vars

(***************************************************************************)
(* Orderbook staleness.                                                    *)
(***************************************************************************)
\* a staleness check ran in this step on an open stream that is not closing
CheckedOpen ==
    /\ stOp' # stOp
    /\ stOp'.name = "staleCheck"
    /\ stOp'.open
    /\ ~stOp'.closing

\* the step has closed the subscription and set the reconnect timer
ForcesReconnect == reconnectTimeout' /\ subscription' = 0

\* C28: a staleness check on a stream that is open and not closing, which has received
\* no message for 60 s or more, forces a reconnect; this includes the stream that has
\* received no message at all since its last reset.
C28_StaleForcesReconnect ==
    [][(CheckedOpen /\ stOp'.at - stOp'.quietSince >= STALE_THRESHOLD_MS) =>
          ForcesReconnect]_vars

\* what the check does: it forces a reconnect when a message has arrived since the
\* last reset and the last one is more than 60 s old
C28_StaleAfterMessage ==
    [][(CheckedOpen /\ stOp'.lastUpdateTime > 0
          /\ stOp'.at - stOp'.lastUpdateTime > STALE_THRESHOLD_MS) =>
          ForcesReconnect]_vars

\* a check found a stream silent for more than 60 s since its reset, and left it alone
C28_SilentSinceReset ==
    /\ stOp.name = "staleCheck"
    /\ stOp.open
    /\ stOp.lastUpdateTime = 0
    /\ stOp.at - stOp.quietSince > STALE_THRESHOLD_MS
    /\ ~stOp.forced

(***************************************************************************)
(* SpecOBFair: the stream of SpecOB whose timers fire when they are due    *)
(* and whose snapshot requests are answered or fail.  Messages, socket     *)
(* closes and close() happen or not.                                       *)
(***************************************************************************)
FetchSettles == \E f \in fetches : FetchFail(f) \/ \E U \in 0..MaxId : FetchOk(f, U)

SpecOBFair ==
    /\ InitOB
    /\ [][NextOB]_vars
    /\ WF_vars(StaleCheck)
    /\ WF_vars(ReconnectTimer)
    /\ WF_vars(FetchSettles)

(***************************************************************************)
(* Resync of a book that cannot be established.                            *)
(***************************************************************************)
\* the stream is subscribed, not closing, and buffers deltas: no snapshot is loaded
Buffering == subscription # 0 /\ ~isClosing /\ ~snapshotLoaded

\* C29: a stream that buffers deltas because its snapshot is not loaded eventually
\* loads it or is resynced (its subscription closed for a reconnect): it never
\* stays in the buffering state forever.
C29_NeverBuffersForever ==
    Buffering ~> ~Buffering

\* the snapshot request of connect() failed and deltas are in the buffer: no timer is
\* set, and a message is put into the buffer
C29_StuckBuffering ==
    /\ Buffering
    /\ fetches = {}
    /\ ~staleCheckInterval
    /\ ~reconnectTimeout
    /\ deltaBuffer # <<>>

(***************************************************************************)
(* SpecThrottle: a market maker without a reference feed, whose local      *)
(* orderbook emits one of two mids; the venue answers the atomic           *)
(* submissions before or after the throttle window ends, or rejects them.  *)
(***************************************************************************)
InitThrottle ==
    /\ referenceFeed = FALSE
    /\ lastReferencePriceAt = 0
    /\ zoLatest = NoMidPrice
    /\ refLatest = NoMidPrice
    /\ lastLoggedSampleCount = -1
    /\ hasLoggedZoOnlyReady = FALSE
    /\ thWaiting = FALSE
    /\ thArgs = Null
    /\ thDeadline = 0
    /\ wuOp = NoWuOp
    /\ InitStVars
    /\ InitPfVars
    /\ InitSdVars
    /\ InitSimVars
    /\ InitShVars
    /\ InitReVars
    /\ InitFoVars
    /\ InitFiVars
    /\ InitAcVars
    /\ InitPsVars
    /\ InitFpVars
    /\ InitOBVars
    /\ InitMMVars
    /\ InitQuVars
    /\ InitGuVars

NextThrottle ==
    \/ \E mid \in FairPrices : HandleZoPrice(mid)
    \/ ThrottleTimer
    \/ \E j \in 1..MaxJobs : AtomicOk(j)
    \/ \E j \in 1..MaxJobs : AtomicFail(j)

SpecThrottle == InitThrottle /\ [][NextThrottle]_vars

(***************************************************************************)
(* Throttled trigger.                                                      *)
(***************************************************************************)
\* the throttle calls executeUpdate in this step: the leading call of a handler or
\* the trailing call of the timer
ThrottleCalls == wuOp' # wuOp /\ wuOp'.started

\* the call is past the re-entrancy guard and works on the fair price it was given
PassesGuard ==
    /\ mmOp'.name \in {"submitted", "noop", "noQuotes"}
    /\ mmOp'.fairPrice = wuOp'.fairPrice

\* C30: the leading call of a burst starts an executeUpdate at once, the timer makes at
\* most one further call per window, with the last fair price of the burst, and that
\* call is processed by an executeUpdate that passes the re-entrancy guard, also when
\* an earlier update still awaits its atomic submission.
C30_ThrottledTrigger ==
    /\ [][ThrottleCalls => PassesGuard]_vars
    /\ [][(wuOp' # wuOp /\ wuOp'.name = "throttleTimer") =>
            (~thWaiting' /\ thArgs'.isNull /\ (wuOp'.started <=> ~thArgs.isNull)
             /\ (wuOp'.started => wuOp'.fairPrice = thArgs.value))]_vars

\* the part that holds: a call of the throttle made while no update is in flight
\* passes the guard
C30_PassesGuardWhenIdle ==
    [][(ThrottleCalls /\ ~isUpdating) => PassesGuard]_vars

\* the trailing call carried a fair price other than the one in flight and was dropped
C30_FinalValueDropped ==
    /\ wuOp.name = "throttleTimer"
    /\ wuOp.started
    /\ mmOp.name = "dropped"
    /\ isUpdating
    /\ ~thWaiting
    /\ \E j \in 1..Len(jobs) : jobs[j].fairPrice # wuOp.fairPrice


(***************************************************************************)
(* Recovery from a failed update.                                          *)
(***************************************************************************)
\* what a call of executeUpdate records: the call started, or was dropped by the guard
TriggerOps == StartedOps \cup {"dropped"}

\* C31: when executeUpdate throws (the atomic submission of a chunk fails, the
\* first or a later one), the cache is empty and isUpdating is false when the
\* invocation is over, no update is left in flight, and the next trigger is not
\* dropped: it passes the guard and plans against the empty cache, cancelling
\* nothing and placing every target quote.
C31_ErrorClearsAndRecovers ==
    /\ [](mmOp.name = "failed" =>
            /\ activeOrders = <<>>
            /\ ~isUpdating
            /\ jobs = <<>>)
    /\ [][(mmOp.name = "failed" /\ mmOp'.name \in TriggerOps) =>
            /\ mmOp'.name \in StartedOps
            /\ mmOp'.live = <<>>
            /\ mmOp'.cancels = <<>>
            /\ mmOp'.places = mmOp'.targets]_vars

\* the second chunk of a reconcile has failed after the first one succeeded
C31_Witness ==
    /\ mmOp.name = "failed"
    /\ mmOp.got >= 1
    /\ Len(mmOp.actions) > MAX_ATOMIC_ACTIONS


(***************************************************************************)
(* SpecMMFair: the quoting loop of SpecMM whose order-sync interval keeps   *)
(* firing and whose user snapshot is fetched successfully again and again.  *)
(***************************************************************************)
SpecMMFair ==
    /\ InitMM
    /\ [][NextMM]_vars
    /\ WF_vars(SyncOrders)
    /\ SF_vars(FetchInfoOk)

\* the cache holds exactly the orders of the account that rest on the venue
CacheIsVenue ==
    /\ Range(activeOrders) = venueOrders
    /\ Len(activeOrders) = Cardinality(venueOrders)

\* C32: after a failed atomic submission has cleared the cache, the cache
\* eventually holds exactly the orders of the account that rest on the venue.
C32_ResyncRecovers == (mmOp.name = "failed") ~> CacheIsVenue

\* an order sync has found orders on the venue while the cache was empty, and
\* has adopted them
C32_Witness ==
    /\ mmOp.name = "synced"
    /\ mmOp.live = <<>>
    /\ venueOrders # {}
    /\ CacheIsVenue


(***************************************************************************)
(* Order-id attribution.                                                   *)
(***************************************************************************)
\* C33: every order that extractPlacedOrders has created from the results of
\* the chunks of a reconcile carries the side, price and size of the place
\* action that the venue posted under that order id.
C33_OrderIdAttribution ==
    mmOp.name \in {"chunk", "updated"} =>
        \A i \in 1..Len(mmOp.placed) :
            \E v \in venueOrders :
                /\ v.orderId = mmOp.placed[i].orderId
                /\ TupleOf(v) = TupleOf(mmOp.placed[i])

\* a posted order is cached with the side of another place action of its chunk
C33_Misattributed ==
    /\ mmOp.name = "updated"
    /\ \E i \in 1..Len(activeOrders) : \E v \in venueOrders :
          /\ v.orderId = activeOrders[i].orderId
          /\ v.side # activeOrders[i].side


(***************************************************************************)
(* Fills during an update.                                                 *)
(***************************************************************************)
\* C34: while an executeUpdate is between its read of the position and the end
\* of its reconcile no step changes baseSize, and when the reconcile finishes
\* the tracker's position and mode are those the quotes were built from.
C34_NoFillDuringUpdate ==
    /\ [][isUpdating => baseSize' = baseSize]_vars
    /\ [](mmOp.name = "updated" =>
            /\ baseSize = mmOp.base
            /\ isCloseMode(baseSize, mmOp.fairPrice)
                  <=> isCloseMode(mmOp.base, mmOp.fairPrice))

\* a reconcile built in normal mode has finished with both of its quotes
\* cached while the tracker is in close mode
C34_ModeChangedUnderUpdate ==
    /\ mmOp.name = "updated"
    /\ ~isCloseMode(mmOp.base, mmOp.fairPrice)
    /\ isCloseMode(baseSize, mmOp.fairPrice)
    /\ Len(activeOrders) = 2


(***************************************************************************)
(* BinancePriceFeed and CoinbasePriceFeed (pricing/binance.ts, coinbase.ts)*)
(* on a record f of the fields.  The two classes differ in the messages    *)
(* they parse and in how close() calls ws.close().  f.socket is the state  *)
(* of the WebSocket object the feed created, whether or not f.ws still     *)
(* refers to it: "connecting", "open", "closing" once close() or           *)
(* terminate() was called on it, "none" once its close event was handled.  *)
(***************************************************************************)
\* cleanup(): the three timers are cleared, this.ws = null
feedCleanup(f) ==
    [f EXCEPT !.pingInterval = FALSE, !.pongTimeout = FALSE,
              !.staleCheckInterval = FALSE, !.ws = FALSE]

\* this.ws?.terminate() and this.ws?.close(): on the socket this.ws refers to
feedWsClose(f) == IF f.ws THEN [f EXCEPT !.socket = "closing"] ELSE f

\* connect(): if (this.ws) return; this.ws = new WebSocket(...)
feedConnect(f) == IF f.ws THEN f ELSE [f EXCEPT !.ws = TRUE, !.socket = "connecting"]

\* scheduleReconnect(): if (this.reconnectTimeout) return; setTimeout(...)
feedScheduleReconnect(f) == [f EXCEPT !.reconnectTimeout = TRUE]

\* close(): isClosing, the reconnect timer, cleanup(), then close() on this.ws;
\* binance.ts also sets this.ws = null after it
feedClose(f) ==
    LET cleaned == feedCleanup([f EXCEPT !.isClosing = TRUE, !.reconnectTimeout = FALSE])
    IN  [feedWsClose(cleaned) EXCEPT !.ws = IF f.kind = "binance" THEN FALSE ELSE @]

pfFrame ==
    UNCHANGED <<obVars, mmVars, quVars, guVars, fpVars, wuVars, psVars, acVars, fiVars, foVars, reVars, shVars, simVars, sdVars, stVars>>

FeedStep(name, f) ==
    /\ feed' = f
    /\ feedOp' = [name |-> name, closed |-> feed.isClosing, by |-> feedOp.by,
                  prices |-> feedOp.prices + (IF name = "onPrice" THEN 1 ELSE 0)]
    /\ pfFrame

\* setupEventHandlers, or the health check after applyReferenceFeed: connect()
FeedConnect ==
    /\ feedOp.name = "init"
    /\ FeedStep("connect", feedConnect(feed))

\* ws.on("open"): lastMessageTime, startPingInterval, startStaleCheck
FeedOpen ==
    /\ feed.socket = "connecting"
    /\ FeedStep("open", [feed EXCEPT !.socket = "open", !.lastMessageTime = 1,
                                     !.pingInterval = TRUE, !.staleCheckInterval = TRUE])

\* ws.on("message") with a ticker that parses: latestPrice, then onPrice(price),
\* which is handleReferencePrice of the market maker; feedOp.prices counts the calls
FeedMessage ==
    /\ feed.socket = "open"
    /\ feedOp.prices < MaxPrices
    /\ FeedStep("onPrice", [feed EXCEPT !.lastMessageTime = 1])

\* the ping interval fires: ping and startPongTimeout if this.ws is open
FeedPing ==
    /\ feed.pingInterval
    /\ FeedStep("ping", IF feed.ws /\ feed.socket = "open"
                        THEN [feed EXCEPT !.pongTimeout = TRUE] ELSE feed)

\* ws.on("pong"): clearPongTimeout
FeedPong ==
    /\ feed.socket = "open"
    /\ feed.pongTimeout
    /\ FeedStep("pong", [feed EXCEPT !.pongTimeout = FALSE])

\* the pong timeout fires: this.ws?.terminate()
FeedPongTimeout ==
    /\ feed.pongTimeout
    /\ FeedStep("pongTimeout", feedWsClose([feed EXCEPT !.pongTimeout = FALSE]))

\* the staleness interval fires, with or without 60 s of silence behind it
FeedStaleCheck(silent) ==
    /\ feed.staleCheckInterval
    /\ FeedStep("staleCheck",
                IF ~feed.isClosing /\ feed.lastMessageTime > 0 /\ silent
                THEN feedWsClose(feed) ELSE feed)

\* ws.on("close"), after close(), terminate() or a drop of the connection:
\* cleanup(), and scheduleReconnect() unless isClosing
FeedCloseEvent ==
    /\ feed.socket # "none"
    /\ LET cleaned == [feedCleanup(feed) EXCEPT !.socket = "none"]
       IN  FeedStep("closeEvent", IF ~feed.isClosing /\ ~feed.reconnectTimeout
                                  THEN feedScheduleReconnect(cleaned) ELSE cleaned)

\* the reconnect timer fires: reconnectTimeout = null, connect()
FeedReconnect ==
    /\ feed.reconnectTimeout
    /\ FeedStep("reconnect", feedConnect([feed EXCEPT !.reconnectTimeout = FALSE]))

\* close() of the feed, called by applyReferenceFeed in a failover or by shutdown()
FeedClose(by) ==
    /\ feedOp.name # "init"
    /\ ~feed.isClosing
    /\ feed' = feedClose(feed)
    /\ feedOp' = [name |-> "close", closed |-> FALSE, by |-> by, prices |-> feedOp.prices]
    /\ pfFrame

(***************************************************************************)
(* SpecFeed: one reference feed from its construction to after its close().*)
(***************************************************************************)
FeedKinds == {"binance", "coinbase"}

InitFeed ==
    /\ \E kind \in FeedKinds : feed = NewFeed(kind)
    /\ feedOp = NoFeedOp
    /\ InitOBVars
    /\ InitMMVars
    /\ InitQuVars
    /\ InitGuVars
    /\ InitFpVars
    /\ InitWuVars
    /\ InitPsVars
    /\ InitAcVars
    /\ InitFiVars
    /\ InitFoVars
    /\ InitReVars
    /\ InitShVars
    /\ InitSimVars
    /\ InitSdVars
    /\ InitStVars

NextFeed ==
    \/ FeedConnect
    \/ FeedOpen
    \/ FeedMessage
    \/ FeedPing
    \/ FeedPong
    \/ FeedPongTimeout
    \/ \E silent \in BOOLEAN : FeedStaleCheck(silent)
    \/ FeedCloseEvent
    \/ FeedReconnect
    \/ \E by \in {"failover", "shutdown"} : FeedClose(by)

SpecFeed == InitFeed /\ [][NextFeed]_vars

(***************************************************************************)
(* Closing a reference feed.                                               *)
(***************************************************************************)
\* C35: once close() was called on a reference feed its socket is closed or
\* closing, its ping interval, pong timeout, staleness interval and reconnect
\* timer are not set, it does not connect again, and it calls onPrice no more.
C35_ClosedFeedIsSilent ==
    feed.isClosing =>
        /\ feed.socket \in {"none", "closing"}
        /\ ~feed.pingInterval
        /\ ~feed.pongTimeout
        /\ ~feed.staleCheckInterval
        /\ ~feed.reconnectTimeout
        /\ feedOp.name \notin {"onPrice", "reconnect", "connect"}

\* the part that holds: a closed feed has no reconnect timer and opens no socket
C35_ClosedFeedNeverReconnects ==
    feed.isClosing =>
        /\ ~feed.reconnectTimeout
        /\ feed.socket # "connecting" \/ feedOp.name = "close"
        /\ feedOp.name \notin {"reconnect", "connect"}

\* a feed that a failover closed has called onPrice afterwards, its timers running
C35_PriceAfterClose ==
    /\ feed.isClosing
    /\ feedOp.name = "onPrice"
    /\ feedOp.closed
    /\ feedOp.by = "failover"
    /\ feed.socket = "open"


(***************************************************************************)
(* Placement per fingerprint.                                              *)
(***************************************************************************)
\* the chunk that the step into this state has submitted to user.atomic
SubmittedChunk == mmOp.sent[Len(mmOp.sent)]

\* SpecFresh: the quoting loop of SpecMM for an account without resting orders,
\* so that every order on the venue is one the agent has placed
InitFresh ==
    /\ InitMM
    /\ venueOrders = {}

SpecFresh == InitFresh /\ [][NextMM]_vars

\* C36: no place action of a chunk that was just submitted has the side, price
\* and size of an order that the agent has placed and that still rests on the
\* venue.
C36_AtMostOncePerFingerprint ==
    mmOp.name \in {"submitted", "chunk"} =>
        \A k \in 1..Len(SubmittedChunk) :
            SubmittedChunk[k].kind = "place" =>
                TupleOf(SubmittedChunk[k]) \notin {TupleOf(v) : v \in venueOrders}

\* after a failed submission has cleared the cache, an update at 400.2 places a
\* bid and an ask while the bid and the ask it placed at 400.2 before both rest
C36_DuplicateAfterFailure ==
    /\ mmOp.name = "submitted"
    /\ mmOp.fairPrice = 4002 * TickUnits
    /\ mmOp.live = <<>>
    /\ Len(mmOp.places) = 2
    /\ Tuples(mmOp.places) \subseteq {TupleOf(v) : v \in venueOrders}


(***************************************************************************)
(* The cache under an overlapping cancel-all.                              *)
(***************************************************************************)
\* C37: once no cancel-all and no update is in flight, the cache holds no order
\* whose cancel a cancel-all has confirmed, and a cancel-all that has just been
\* confirmed has removed from the cache only the orders it cancelled: the
\* orders that an update cached in the meantime are still there.
C37_CacheConsistentAfterOverlap ==
    (jobs = <<>> /\ cancelJobs = <<>>) =>
        /\ OrderIds(activeOrders) \cap fillOp.confirmed = {}
        /\ mmOp.name = "cancelled" =>
              \A i \in 1..Len(mmOp.live) :
                  mmOp.live[i].orderId \notin OrderIds(mmOp.cancels) =>
                      mmOp.live[i].orderId \in OrderIds(activeOrders)

\* the update finished first: the cancel-all then dropped an order that the
\* update had placed and that rests on the venue
C37_PlacedOrderDropped ==
    /\ jobs = <<>> /\ cancelJobs = <<>>
    /\ mmOp.name = "cancelled"
    /\ activeOrders = <<>>
    /\ \E i \in 1..Len(mmOp.live) :
          /\ mmOp.live[i].orderId \notin OrderIds(mmOp.cancels)
          /\ mmOp.live[i] \in venueOrders

\* the cancel-all finished first: the update then put back an order that the
\* cancel-all had cancelled
C37_CancelledOrderKept ==
    /\ jobs = <<>> /\ cancelJobs = <<>>
    /\ mmOp.name = "updated"
    /\ \E i \in 1..Len(mmOp.kept) :
          /\ mmOp.kept[i].orderId \in fillOp.confirmed
          /\ mmOp.kept[i].orderId \in OrderIds(activeOrders)
          /\ mmOp.kept[i].orderId \notin {v.orderId : v \in venueOrders}


(***************************************************************************)
(* SpecMarket: the quoting loop of SpecFill for an account that also has   *)
(* an order in another market, which is filled.                            *)
(***************************************************************************)
\* the other market trades at 1000.0: one lot of it is worth closeThresholdUsd
OtherMarketPrices == {10000 * TickUnits}

NextMarket ==
    \/ NextFill
    \/ \E side \in {"bid", "ask"}, size \in FillLots, price \in OtherMarketPrices :
          OnOtherMarketFill(side, size, price)

SpecMarket == InitFill /\ [][NextMarket]_vars

(***************************************************************************)
(* Fills of other markets.                                                 *)
(***************************************************************************)
\* C38: a fill event of a market other than the bot's changes neither baseSize
\* nor the cancel-alls in flight.
C38_OtherMarketFillIgnored ==
    [][(fillOp' # fillOp /\ fillOp'.name = "onFill" /\ fillOp'.marketId # marketId) =>
            /\ baseSize' = baseSize
            /\ cancelJobs' = cancelJobs]_vars

\* a fill of another market has moved baseSize and started a cancel-all
C38_OtherMarketFillApplied ==
    /\ fillOp.name = "onFill"
    /\ fillOp.marketId = otherMarketId
    /\ baseSize # fillOp.before
    /\ fillOp.initiated # <<>>
    /\ cancelJobs # <<>>


(***************************************************************************)
(* Close-mode sizes.                                                       *)
(***************************************************************************)
\* the side that reduces the position base
ReducingSide(base) == IF base > 0 THEN "ask" ELSE "bid"

\* |base| rounded down to whole lots
FloorLot(base) == (Abs(base) \div LotUnits) * LotUnits

\* C39: after an executeUpdate that read a close-mode position and whose
\* reconcile succeeded, every cached order is on the reducing side of that
\* position and is no larger than the position rounded down to lots.
C39_CloseModeCache ==
    (mmOp.name \in {"noop", "updated"} /\ isCloseMode(mmOp.base, mmOp.fairPrice)) =>
        \A i \in 1..Len(activeOrders) :
            /\ activeOrders[i].side = ReducingSide(mmOp.base)
            /\ activeOrders[i].size <= FloorLot(mmOp.base)

\* the part that holds: the cached orders are on the reducing side
C39_CloseModeCacheSide ==
    (mmOp.name \in {"noop", "updated"} /\ isCloseMode(mmOp.base, mmOp.fairPrice)) =>
        \A i \in 1..Len(activeOrders) :
            activeOrders[i].side = ReducingSide(mmOp.base)

\* a close-mode update has kept, through the guard, a live order of the normal
\* size, which is larger than the position
C39_KeptOversized ==
    /\ mmOp.name = "updated"
    /\ isCloseMode(mmOp.base, mmOp.fairPrice)
    /\ \E i \in 1..Len(mmOp.kept) :
          /\ mmOp.kept[i].size > FloorLot(mmOp.base)
          /\ mmOp.kept[i] \in Range(activeOrders)

(***************************************************************************)
(* The subscriptions of the orderbook stream over reconnects and close().  *)
(***************************************************************************)
OpenSubs == {s \in 1..Len(subs) : subs[s] = "open"}

\* C40: the stream has at most one open subscription, the one it holds in
\* this.subscription, and none after close(): no close event of a superseded
\* subscription discards the current one; and after close() no price is
\* emitted (latestPrice, cleared by close(), stays cleared).
C40_SingleSubscription ==
    /\ Cardinality(OpenSubs) <= 1
    /\ \A s \in OpenSubs : s = subscription /\ ~isClosing
    /\ isClosing => latestPrice = NoPrice

\* the part of C40 that holds: close() leaves no reconnect timer, and none
\* is set afterwards
C40_NoTimerAfterClose == isClosing => ~reconnectTimeout

\* the close event of subscription 1, closed by scheduleReconnect, arrives
\* after the reconnect: the open subscription 2 is dropped without being
\* closed and another reconnect is pending
C40_LateCloseDiscards ==
    /\ obOp.name = "closeEvent"
    /\ ~isClosing
    /\ subscription = 0
    /\ reconnectTimeout
    /\ \E s \in OpenSubs : s # obOp.id

\* a snapshot fetched by a connect or reconnect that was in flight at close()
\* arrives afterwards and emits its price
C40_PriceAfterClose ==
    /\ isClosing
    /\ obOp.name = "snapshot"
    /\ latestPrice # NoPrice

====
